---- MODULE Spec2Model ----
(***************************************************************************)
(* A model of meli's IMAP connection core                                  *)
(* (melib/src/backends/imap/connection.rs): the wire framer                *)
(* (ImapStream::read_lines), stream establishment                          *)
(* (ImapStream::new_connection) and the reconnecting wrapper               *)
(* (ImapConnection).  Bytes on the transport are modelled as sequences of  *)
(* one-character strings; offsets are 0-based as in the source.            *)
(***************************************************************************)
EXTENDS Integers, Sequences, FiniteSets, TLC

(***************************************************************************)
(* Byte strings                                                            *)
(***************************************************************************)
CR == "\r"
LF == "\n"
SP == " "
CRLF == <<CR, LF>>

Digits == <<"0", "1", "2", "3", "4", "5", "6", "7", "8", "9">>

RECURSIVE Decimal(_)
\* usize::to_string / format!("{}", n)
Decimal(n) ==
    IF n < 10 THEN <<Digits[n + 1]>> ELSE Decimal(n \div 10) \o <<Digits[(n % 10) + 1]>>

LowerLetters ==
    <<"a", "b", "c", "d", "e", "f", "g", "h", "i", "j", "k", "l", "m",
      "n", "o", "p", "q", "r", "s", "t", "u", "v", "w", "x", "y", "z">>
UpperLetters ==
    <<"A", "B", "C", "D", "E", "F", "G", "H", "I", "J", "K", "L", "M",
      "N", "O", "P", "Q", "R", "S", "T", "U", "V", "W", "X", "Y", "Z">>

\* u8::to_ascii_uppercase
ToAsciiUpper(c) ==
    IF \E i \in 1..26 : LowerLetters[i] = c
    THEN UpperLetters[CHOOSE i \in 1..26 : LowerLetters[i] = c]
    ELSE c

\* <[u8]>::eq_ignore_ascii_case
EqIgnoreAsciiCase(a, b) ==
    /\ Len(a) = Len(b)
    /\ \A i \in 1..Len(a) : ToAsciiUpper(a[i]) = ToAsciiUpper(b[i])

\* s[a..b] of the source: 0-based, b exclusive
Slice(s, a, b) == SubSeq(s, a + 1, b)

\* s[a..]
From(s, a) == SubSeq(s, a + 1, Len(s))

\* <[u8]>::starts_with
StartsWith(s, p) == Len(p) <= Len(s) /\ SubSeq(s, 1, Len(p)) = p

\* <[u8]>::ends_with
EndsWith(s, p) == Len(p) <= Len(s) /\ SubSeq(s, Len(s) - Len(p) + 1, Len(s)) = p

\* The offsets at which p occurs in s
Occurrences(s, p) == {i \in 0..(Len(s) - Len(p)) : Slice(s, i, i + Len(p)) = p}

Min(S) == CHOOSE x \in S : \A y \in S : x <= y
Max(S) == CHOOSE x \in S : \A y \in S : x >= y

\* BytesExt::find: the first occurrence, -1 for None
Find(s, p) == IF Occurrences(s, p) = {} THEN -1 ELSE Min(Occurrences(s, p))

\* BytesExt::rfind: the last occurrence, -1 for None
RFind(s, p) == IF Occurrences(s, p) = {} THEN -1 ELSE Max(Occurrences(s, p))

IsSpace(c) == c \in {SP, CR, LF, "\t"}

RECURSIVE TrimStart(_)
TrimStart(s) == IF s # <<>> /\ IsSpace(Head(s)) THEN TrimStart(Tail(s)) ELSE s

RECURSIVE TrimEnd(_)
TrimEnd(s) ==
    IF s # <<>> /\ IsSpace(s[Len(s)]) THEN TrimEnd(SubSeq(s, 1, Len(s) - 1)) ELSE s

\* BytesExt::trim: ASCII white space stripped from both ends
Trim(s) == TrimEnd(TrimStart(s))

RECURSIVE SplitRn(_)
\* ImapLineSplit::split_rn: the lines of a buffer, each with its CRLF; a
\* trailing piece without CRLF is the last item
SplitRn(s) ==
    IF s = <<>> THEN <<>>
    ELSE LET pos == Find(s, CRLF)
         IN IF pos = -1 THEN <<s>>
            ELSE <<Slice(s, 0, pos + 2)>> \o SplitRn(From(s, pos + 2))

(***************************************************************************)
(* Byte literals of the source                                             *)
(***************************************************************************)
\* b"* BYE"
B_BYE == <<"*", SP, "B", "Y", "E">>
\* b"* OK "
B_STAR_OK == <<"*", SP, "O", "K", SP>>
\* b"OK "
B_OK_SP == <<"O", "K", SP>>
\* b"M1 OK"
B_M1_OK == <<"M", "1", SP, "O", "K">>
\* b"* CAPABILITY"
B_STAR_CAPABILITY == <<"*", SP, "C", "A", "P", "A", "B", "I", "L", "I", "T", "Y">>

\* format!("M{} ", n)
Tag(n) == <<"M">> \o Decimal(n) \o <<SP>>

(***************************************************************************)
(* The wire framer: one pass of the loop of ImapStream::read_lines over    *)
(* the bytes of one read                                                   *)
(***************************************************************************)
\* The Ok(b) arm without the `* BYE` check
ReadLinesOnData_NoByeCheck(ret0, lli0, chunk, termination_string, keep_termination_string) ==
    LET ret  == ret0 \o chunk
        pos0 == RFind(From(ret, lli0), CRLF)
    IN  IF pos0 = -1
        THEN [ret |-> ret, lli |-> lli0, out |-> "continue"]
        ELSE
          LET prev_line == RFind(Slice(ret, lli0, pos0 + lli0), CRLF)
              lli1 == IF prev_line # -1 THEN lli0 + prev_line + 2 ELSE lli0
              pos1 == IF prev_line # -1 THEN pos0 - (prev_line + 2) ELSE pos0
              atEnd == (pos1 + 2 = Len(From(ret, lli1)))
          IN  IF atEnd /\ termination_string # <<>>
                       /\ StartsWith(From(ret, lli1), termination_string)
              THEN [ret |-> IF keep_termination_string THEN ret
                            ELSE Slice(ret, 0, lli1),
                    lli |-> lli1, out |-> "break"]
              ELSE IF atEnd /\ termination_string = <<>>
              THEN [ret |-> ret, lli |-> lli1, out |-> "break"]
              ELSE [ret |-> ret, lli |-> lli1 + pos1 + 2, out |-> "continue"]

\* The Ok(b) arm without the step back to the line before the last CRLF
ReadLinesOnData_NoPrevLine(ret0, lli0, chunk, termination_string, keep_termination_string) ==
    LET ret  == ret0 \o chunk
        pos0 == RFind(From(ret, lli0), CRLF)
    IN  IF pos0 = -1
        THEN [ret |-> ret, lli |-> lli0, out |-> "continue"]
        ELSE IF StartsWith(From(ret, lli0), B_BYE)
        THEN [ret |-> ret, lli |-> lli0, out |-> "Disconnected"]
        ELSE
          LET atEnd == (pos0 + 2 = Len(From(ret, lli0)))
          IN  IF atEnd /\ termination_string # <<>>
                       /\ StartsWith(From(ret, lli0), termination_string)
              THEN [ret |-> IF keep_termination_string THEN ret
                            ELSE Slice(ret, 0, lli0),
                    lli |-> lli0, out |-> "break"]
              ELSE IF atEnd /\ termination_string = <<>>
              THEN [ret |-> ret, lli |-> lli0, out |-> "break"]
              ELSE [ret |-> ret, lli |-> lli0 + pos0 + 2, out |-> "continue"]

\* The Ok(b) arm: `ret0`, `lli0` are ret and last_line_idx before the read,
\* `chunk` the bytes read.  out: "continue" (next read), "break" (return
\* Ok) or "Disconnected" (return Err).
ReadLinesOnData(ret0, lli0, chunk, termination_string, keep_termination_string) ==
    LET ret  == ret0 \o chunk
        pos0 == RFind(From(ret, lli0), CRLF)
    IN  IF pos0 = -1
        THEN [ret |-> ret, lli |-> lli0, out |-> "continue"]
        ELSE IF StartsWith(From(ret, lli0), B_BYE)
        THEN [ret |-> ret, lli |-> lli0, out |-> "Disconnected"]
        ELSE
          LET prev_line == RFind(Slice(ret, lli0, pos0 + lli0), CRLF)
              lli1 == IF prev_line # -1 THEN lli0 + prev_line + 2 ELSE lli0
              pos1 == IF prev_line # -1 THEN pos0 - (prev_line + 2) ELSE pos0
              atEnd == (pos1 + 2 = Len(From(ret, lli1)))
          IN  IF atEnd /\ termination_string # <<>>
                       /\ StartsWith(From(ret, lli1), termination_string)
              THEN [ret |-> IF keep_termination_string THEN ret
                            ELSE Slice(ret, 0, lli1),
                    lli |-> lli1, out |-> "break"]
              ELSE IF atEnd /\ termination_string = <<>>
              THEN [ret |-> ret, lli |-> lli1, out |-> "break"]
              ELSE [ret |-> ret, lli |-> lli1 + pos1 + 2, out |-> "continue"]

(***************************************************************************)
(* Capability tokens and server lines                                      *)
(***************************************************************************)
\* b"IMAP4rev1"
C_IMAP4REV1 == <<"I", "M", "A", "P", "4", "r", "e", "v", "1">>
\* b"LOGINDISABLED"
C_LOGINDISABLED == <<"L", "O", "G", "I", "N", "D", "I", "S", "A", "B", "L", "E", "D">>
\* b"AUTH=XOAUTH2"
C_XOAUTH2 == <<"A", "U", "T", "H", "=", "X", "O", "A", "U", "T", "H", "2">>
\* b"CONDSTORE"
C_CONDSTORE == <<"C", "O", "N", "D", "S", "T", "O", "R", "E">>
\* b"UNSELECT"
C_UNSELECT == <<"U", "N", "S", "E", "L", "E", "C", "T">>
\* the same token in another letter case
C_unselect_mixed == <<"U", "n", "s", "e", "l", "e", "c", "t">>
\* b"ENABLE"
C_ENABLE == <<"E", "N", "A", "B", "L", "E">>
\* QRESYNC of rfc7162, which SyncPolicy::CondstoreQresync names
C_QRESYNC == <<"Q", "R", "E", "S", "Y", "N", "C">>
\* The same tokens as a server may spell them in another letter case
C_imap4rev1_mixed == <<"i", "m", "a", "p", "4", "R", "E", "V", "1">>
C_logindisabled_mixed == <<"L", "o", "g", "i", "n", "D", "i", "s", "a", "b", "l", "e", "d">>

\* b"CAPABILITY "
B_CAPABILITY_SP == <<"C", "A", "P", "A", "B", "I", "L", "I", "T", "Y", SP>>

RECURSIVE JoinSp(_)
\* tokens joined by single spaces
JoinSp(toks) ==
    IF toks = <<>> THEN <<>>
    ELSE IF Len(toks) = 1 THEN toks[1]
    ELSE toks[1] \o <<SP>> \o JoinSp(Tail(toks))

\* The server line "* CAPABILITY tok tok ...\r\n"
CapabilityLine(toks) == <<"*", SP>> \o B_CAPABILITY_SP \o JoinSp(toks) \o CRLF

RECURSIVE SplitTokens(_, _)
\* separated_list1(tag(" "), is_not(" ]\r\n")): the tokens of s up to the
\* first byte that ends the list; `cur` is the token being read
SplitTokens(s, cur) ==
    IF s = <<>> \/ Head(s) \in {CR, LF, "]"}
    THEN IF cur = <<>> THEN <<>> ELSE <<cur>>
    ELSE IF Head(s) = SP
    THEN IF cur = <<>> THEN <<>>
         ELSE IF Len(s) > 1 /\ s[2] \notin {SP, CR, LF, "]"}
              THEN <<cur>> \o SplitTokens(Tail(s), <<>>)
              ELSE <<cur>>
    ELSE SplitTokens(Tail(s), Append(cur, Head(s)))

\* protocol_parser::capabilities: the tokens after the first "CAPABILITY "
\* of the input up to the end of that line; <<>> stands for a parse error
\* (no "CAPABILITY ", no token, or no CRLF after the list)
ParseCapabilities(input) ==
    LET at == Find(input, B_CAPABILITY_SP)
    IN  IF at = -1 THEN <<>>
        ELSE LET rest == From(input, at + Len(B_CAPABILITY_SP))
             IN  IF Find(rest, CRLF) = -1 THEN <<>> ELSE SplitTokens(rest, <<>>)

\* capabilities.iter().any(|cap| cap.eq_ignore_ascii_case(name))
AnyCapIgnoreCase(caps, name) == \E i \in 1..Len(caps) : EqIgnoreAsciiCase(caps[i], name)

\* HashSet::from_iter(capabilities)
CapSet(caps) == {caps[i] : i \in 1..Len(caps)}

(***************************************************************************)
(* Bounds of the model and constants of the program                        *)
(***************************************************************************)
\* Lines a server sends in answer to one command
MaxLines == 2
\* Seconds the STARTTLS timer is followed for
MaxElapsed == 4
\* `while now.elapsed().as_secs() < 3`
StarttlsSettleSecs == 3

(***************************************************************************)
(* State                                                                   *)
(***************************************************************************)
VARIABLES
    conf,            \* ImapServerConf: server_hostname, use_tls, use_starttls,
                     \* protocol, its extension_use (oauth2, condstore), timeout,
                     \* and uid_store.keep_offline_cache
    wire,            \* bytes the server has sent and the client has not read
    eof,             \* the server has closed the transport
    srv,             \* the server: the command it answers, its tag, lines left
    tls_on,          \* the transport is a TLS session
    sent_log,        \* commands written on the transport: tag, cmd, tls
    stack,           \* the calls in progress, innermost last: fn, pc
    retval,          \* the result of the call that returned last
    cmd_id,          \* ImapStream.cmd_id
    current_mailbox, \* ImapStream.current_mailbox
    ret,             \* the buffer read_lines fills (`res` of new_connection)
    last_line_idx,   \* read_lines' cursor
    termination,     \* read_lines' termination_string and keep_termination_string
    response,        \* the STARTTLS loop's buffer
    elapsed,         \* seconds since the STARTTLS command was flushed
    accepted_at,     \* `elapsed` when the STARTTLS loop broke out, -1 before
    pre_caps,        \* tokens of the CAPABILITY response before authentication
    post_caps,       \* Option<HashSet>: capabilities seen in the LOGIN response
    now,             \* SystemTime::now(), in minutes
    stream,          \* ImapConnection.stream: Ok (its fields are cmd_id, ..) or Err
    held,            \* the connection's stream while another is being established
    is_online,       \* ImapConnection.is_online: (time, status)
    sync_policy,     \* ImapConnection.sync_policy
    capabilities,    \* ImapConnection.capabilities
    new_caps,        \* connect's `capabilities`
    required,        \* read_response's required_responses
    out,             \* the caller's buffer of ImapConnection::read_response
    notices,         \* Notices the running read_response has emitted
    processed,       \* the lines the running read_response passed to process_untagged
    opened,          \* streams opened so far
    entry,           \* the operation the caller started and the state it started in
    uid_store,       \* UIDStore: per mailbox the last UIDVALIDITY seen and the UIDs mapped
    mailboxes,       \* the server's mailboxes: the UIDVALIDITY of each
    result,          \* ImapBlockingConnection.result
    prev_res_length, \* ImapBlockingConnection.prev_res_length
    err,             \* ImapBlockingConnection.err: the kind of the error, "None" for None
    pulled,          \* the lines as_stream has returned, oldest first
    request_no,      \* JmapConnection.request_no: the shared counter
    request_no_lock, \* the holder of the counter's Mutex, "free" when none
    email_state,     \* Store.email_state: the stored Email state, "" when empty
    jc,              \* the JMAP operation each caller runs: its position and locals
    drawn,           \* the sequence numbers get_request_no! has returned, oldest first
    envelopes,       \* Collection.envelopes: the keys of the envelope map
    thread_nodes,    \* Collection.threads: the nodes that hold a message, with their parent
    cache,           \* the `threads` file of the folder's cache directory
    made,            \* how the Collection was built: the branch Collection::new took
                     \* and the inserts made since
    draft,           \* a Draft: headers, header_order, body, attachments
    draft_text,      \* Option: what Draft::to_string returned for `draft`
    draft_back,      \* Option: what Draft::from_str returned for `draft_text`
    query_input,     \* the words of the search string given to query()
    query_result,    \* what query().parse_complete returned for it
    segment_tree,    \* a SegmentTree: array, tree
    seg_values,      \* the value at each position after the updates so far
    seg_got,         \* Option: the last get_max call, its bounds and what it returned
    rate_limit,      \* a RateLimit: last_tick, rate, reqs, millis, active; the timer's rearms
    instant,         \* Instant::now(), in milliseconds
    accepted,        \* the instants of the ticks that returned true
    last_call,       \* the last call on the RateLimit: when, last_tick before it, the result
    listing          \* ThreadListing: length, new_cursor_pos.2, movement; the last draw_list

transportVars == <<wire, eof, srv, tls_on, sent_log>>
framerVars == <<ret, last_line_idx, termination>>
streamVars == <<cmd_id, current_mailbox>>
establishVars == <<response, elapsed, accepted_at, pre_caps, post_caps>>
connVars == <<now, stream, held, is_online, sync_policy, capabilities, new_caps,
              required, out, notices, opened>>
storeVars == <<uid_store, mailboxes>>
collVars == <<envelopes, thread_nodes, cache, made>>
jmapVars == <<request_no, request_no_lock, email_state, jc, drawn>>
blockingVars == <<result, prev_res_length, err, pulled>>
draftVars == <<draft, draft_text, draft_back>>
queryVars == <<query_input, query_result>>
segVars == <<segment_tree, seg_values, seg_got>>
rateVars == <<rate_limit, instant, accepted, last_call>>
toolVars == <<draftVars, queryVars, segVars, rateVars, listing>>
vars == <<conf, transportVars, stack, retval, framerVars, streamVars, establishVars,
          connVars, entry, storeVars, processed, toolVars, collVars, jmapVars, blockingVars>>

\* No Draft has been made
NoDraft ==
    /\ draft = [some |-> FALSE]
    /\ draft_text = [some |-> FALSE]
    /\ draft_back = [some |-> FALSE]

\* No search string has been parsed
NoQuery ==
    /\ query_input = <<>>
    /\ query_result = [done |-> FALSE]

\* SegmentTree::default()
NoSegmentTree ==
    /\ segment_tree = [array |-> <<>>, tree |-> <<>>]
    /\ seg_values = <<>>
    /\ seg_got = [some |-> FALSE]

\* No RateLimit has been made
NoRateLimit ==
    /\ rate_limit = [last_tick |-> 0, rate |-> 0, reqs |-> 0, millis |-> 0,
                     active |-> FALSE, rearmed |-> 0]
    /\ instant = 0
    /\ accepted = {}
    /\ last_call = [fn |-> "none", at |-> 0, since |-> 0, returned |-> FALSE]

\* The components beside the backends are not in use
\* ThreadListing::new: an empty listing
NoListing ==
    listing = [length |-> 0, new_cursor_pos |-> 0, movement |-> [some |-> FALSE],
               drawn |-> [some |-> FALSE]]

NoTools == NoDraft /\ NoQuery /\ NoSegmentTree /\ NoRateLimit /\ NoListing

\* Collection::new(Vec::new(), ..)
NoCollection ==
    /\ envelopes = {}
    /\ thread_nodes = {}
    /\ cache = [written |-> FALSE, threads |-> {}]
    /\ made = [path |-> "none", fresh |-> FALSE, order |-> <<>>, inserts_only |-> TRUE,
               fs |-> [found |-> FALSE, deserializes |-> FALSE, place |-> FALSE,
                       create |-> FALSE]]

\* The tasks that share one JmapConnection
Callers == {"a", "b"}

\* A caller that runs no operation
NoCall ==
    [op |-> "none", pc |-> "idle", pending |-> <<>>, lck_ret |-> 0, prev_seq |-> 0,
     calls |-> <<>>,
     reply |-> "none", state |-> "", seen |-> "", stored_at_call |-> "",
     changes |-> FALSE, outcome |-> "none"]

\* A JmapConnection no operation has run on
NoJmap ==
    /\ request_no = 0
    /\ request_no_lock = "free"
    /\ email_state = ""
    /\ jc = [c \in Callers |-> NoCall]
    /\ drawn = <<>>

\* ImapBlockingConnection::from(conn)
NoBlocking ==
    /\ result = <<>>
    /\ prev_res_length = 0
    /\ err = "None"
    /\ pulled = <<>>

\* MailboxHash values
MailboxHashes == {"h1", "h2"}

\* UIDVALIDITY values of a mailbox
UidValidities == {42, 43}

\* A UIDStore that has seen no mailbox
EmptyStore ==
    [uidvalidity |-> [h \in MailboxHashes |-> 0], uid_index |-> [h \in MailboxHashes |-> {}]]

\* A UIDStore after every mailbox was selected with UIDVALIDITY 42 and
\* the message with UID 1 fetched
SeenStore ==
    [uidvalidity |-> [h \in MailboxHashes |-> 42], uid_index |-> [h \in MailboxHashes |-> {1}]]

NoCaps == [some |-> FALSE, set |-> {}]
\* Results: `by` is the function that returned, `site` the place in it
NoResult == [ok |-> TRUE, kind |-> "None", site |-> "none", caps |-> {}, by |-> "none"]

OkResult == [ok |-> TRUE, kind |-> "None", site |-> "ok", caps |-> {}, by |-> "none"]
ErrResult(kind, site) ==
    [ok |-> FALSE, kind |-> kind, site |-> site, caps |-> {}, by |-> "none"]

(***************************************************************************)
(* Calls                                                                   *)
(***************************************************************************)
Top == stack[Len(stack)]
At(f, p) == stack # <<>> /\ Top.fn = f /\ Top.pc = p
Goto(p) == [stack EXCEPT ![Len(stack)].pc = p]
Popped == SubSeq(stack, 1, Len(stack) - 1)
\* continue the caller at `p` once the callee `f` has returned
CallAt(p, f, start) == Append(Goto(p), [fn |-> f, pc |-> start])

IsImap == conf.protocol = "IMAP"

Return(v) == stack' = Popped /\ retval' = [v EXCEPT !.by = Top.fn]

(***************************************************************************)
(* The server and the transport                                            *)
(***************************************************************************)
W_OK == <<"O", "K">>
W_NO == <<"N", "O">>
W_BAD == <<"B", "A", "D">>
\* some text after the status word
T_X == <<SP, "x">>

\* "* OK hi\r\n"
GreetingLine == B_STAR_OK \o <<"h", "i">> \o CRLF
\* "* 1 EXISTS\r\n"
ExistsLine == <<"*", SP, "1", SP, "E", "X", "I", "S", "T", "S", CR, LF>>
\* "* 1 RECENT\r\n"
RecentLine == <<"*", SP, "1", SP, "R", "E", "C", "E", "N", "T", CR, LF>>
\* "* BYE x\r\n"
ByeLine == B_BYE \o T_X \o CRLF

\* The line that ends the answer to a command: its tag on an IMAP
\* transport, none on a ManageSieve one
ReplyPrefix(tag) == IF tag = 0 THEN <<>> ELSE Tag(tag)

\* The server at server_hostname: "rfc3501" is one that keeps to the
\* protocol (IMAP4rev1 advertised, text after the status word), "any" one
\* that may send any of the lines below
Conforming == conf.server_hostname = "rfc3501"

Completions(tag) ==
    { ReplyPrefix(tag) \o W_OK \o T_X \o CRLF,
      ReplyPrefix(tag) \o W_NO \o T_X \o CRLF }
    \cup (IF Conforming THEN {} ELSE {ReplyPrefix(tag) \o W_OK \o CRLF})

\* The capability lists a server advertises before authentication
PreAuthCapLists ==
    IF Conforming THEN {<<C_IMAP4REV1>>}
    ELSE { <<C_IMAP4REV1>>,
           <<C_IMAP4REV1, C_XOAUTH2>>,
           <<C_IMAP4REV1, C_LOGINDISABLED>>,
           <<C_imap4rev1_mixed, C_logindisabled_mixed>>,
           <<C_LOGINDISABLED>> }

\* ... and after it
PostAuthCapLists ==
    IF Conforming THEN { <<C_IMAP4REV1>>, <<C_IMAP4REV1, C_CONDSTORE, C_QRESYNC>> }
    ELSE { <<C_IMAP4REV1>>, <<C_IMAP4REV1, C_CONDSTORE>> }

\* The untagged lines a server may send while it answers `cmd`
UntaggedLines(cmd) ==
    CASE cmd = "CAPABILITY" ->
             IF \E i \in 1..Len(sent_log) : sent_log[i].cmd \in {"LOGIN", "AUTHENTICATE"}
             THEN {CapabilityLine(c) : c \in PostAuthCapLists}
             ELSE {CapabilityLine(c) : c \in PreAuthCapLists}
      [] cmd \in {"LOGIN", "AUTHENTICATE"} ->
             {CapabilityLine(c) : c \in PostAuthCapLists}
      [] cmd \in {"NOOP", "ENABLE", "STATUS"} -> {ExistsLine, ByeLine}
      [] cmd = "IDLE" -> {ExistsLine, RecentLine}
      [] OTHER -> {}

\* The tagged BAD by which a server rejects a command sent over an
\* established stream; a server that keeps to the protocol has no cause to
Rejections(s) ==
    IF ~Conforming /\ s.cmd \in {"NOOP", "ENABLE", "STATUS", "UNSELECT", "SELECT"}
    THEN {ReplyPrefix(s.tag) \o W_BAD \o T_X \o CRLF}
    ELSE {}

ServerLines(s) ==
    IF s.cmd = "greeting" THEN {GreetingLine}
    ELSE UntaggedLines(s.cmd) \cup Completions(s.tag) \cup Rejections(s)

\* The line after which the server has answered: the greeting, the
\* completion of the command and, from a server that keeps to the protocol,
\* `* BYE` (it sends nothing after it and closes the transport)
IsFinal(s, l) ==
    \/ s.cmd = "greeting"
    \/ l \in Completions(s.tag)
    \/ l \in Rejections(s)
    \/ Conforming /\ l = ByeLine

\* The server when it has answered: `out` keeps the bytes of the answer
Idle(sent) == [cmd |-> "idle", tag |-> 0, left |-> 0, out |-> sent]

\* The server that keeps to the protocol, once it has sent `* BYE`: it
\* answers no command any more
Gone(sent) == [cmd |-> "bye", tag |-> 0, left |-> 0, out |-> sent]

\* The server of a fresh transport: it greets
Greeting == [cmd |-> "greeting", tag |-> 0, left |-> 1, out |-> <<>>]

\* The server sends one more line of its answer
ServerSend ==
    /\ UNCHANGED connVars
    /\ stack # <<>>
    /\ ~eof
    /\ srv.cmd # "idle"
    /\ srv.left > 0
    /\ (srv.cmd = "greeting" /\ conf.use_tls /\ ~conf.use_starttls) => tls_on
    /\ \E l \in ServerLines(srv) :
         /\ wire' = wire \o l
         /\ srv' = IF Conforming /\ srv.cmd # "greeting" /\ l = ByeLine
                   THEN Gone(srv.out \o l)
                   ELSE IF IsFinal(srv, l) THEN Idle(srv.out \o l)
                   ELSE [srv EXCEPT !.left = @ - 1, !.out = @ \o l]
    /\ UNCHANGED <<conf, entry, storeVars, processed, toolVars, collVars, jmapVars, blockingVars, eof, tls_on, sent_log, stack, retval, framerVars,
                   streamVars, establishVars>>

\* The server closes the transport.  What it has sent is read first: with
\* bytes in flight the client cannot tell a transport that is closed from
\* one that is not.
ServerClose ==
    /\ UNCHANGED connVars
    /\ stack # <<>>
    /\ wire = <<>>
    /\ ~eof
    /\ eof' = TRUE
    /\ UNCHANGED <<conf, entry, storeVars, processed, toolVars, collVars, jmapVars, blockingVars, wire, srv, tls_on, sent_log, stack, retval, framerVars,
                   streamVars, establishVars>>

Take(s, n) == SubSeq(s, 1, n)
Drop(s, n) == SubSeq(s, n + 1, Len(s))

(***************************************************************************)
(* ImapStream::send_command                                                *)
(***************************************************************************)
\* The tag the next command gets on the wire: 0 stands for no tag
NextTag == IF IsImap THEN cmd_id ELSE 0

\* The command is written and flushed
StreamSendOk(cmd) ==
    /\ cmd_id' = IF IsImap THEN cmd_id + 1 ELSE cmd_id
    /\ sent_log' = Append(sent_log, [tag |-> NextTag, cmd |-> cmd, tls |-> tls_on,
                                     full |-> TRUE])
    /\ srv' = IF srv.cmd = "bye" THEN srv
              ELSE [cmd |-> cmd, tag |-> NextTag, left |-> MaxLines, out |-> <<>>]

\* A write fails or the timeout expires: before the tag is out
\* (tagWritten = FALSE) or after it
StreamSendFail(cmd, tagWritten) ==
    /\ cmd_id' = IF IsImap /\ tagWritten THEN cmd_id + 1 ELSE cmd_id
    /\ sent_log' = IF IsImap /\ tagWritten
                   THEN Append(sent_log, [tag |-> cmd_id, cmd |-> cmd, tls |-> tls_on,
                                          full |-> FALSE])
                   ELSE sent_log
    /\ UNCHANGED srv

(***************************************************************************)
(* ImapStream::read_response and ImapStream::read_lines                    *)
(***************************************************************************)
\* read_response's termination: the tag of the command sent last
ResponseId(id) == IF IsImap THEN Tag(id - 1) ELSE <<>>

\* The prologue of read_lines: ret.clear(), last_line_idx = 0
EnterReadLines(termination_string, keep_termination_string) ==
    /\ ret' = <<>>
    /\ last_line_idx' = 0
    /\ termination' = [s |-> termination_string, keep |-> keep_termination_string]

\* The numbers of bytes one read may deliver when w is in flight.  When
\* read_lines runs on its own a read delivers any non-empty prefix.  Under
\* another operation the split points are bounded: while a stream is
\* established a read delivers everything in flight or all but its last
\* byte (which splits a CRLF), under an operation of the connection
\* everything in flight.
ReadSizes(w) ==
    IF stack[1].fn \in {"read_lines", "as_stream"} THEN 1..Len(w)
    ELSE IF stack[1].fn = "new_connection" THEN {n \in {Len(w), Len(w) - 1} : n >= 1}
    ELSE {Len(w)} \ {0}

\* Ok(b): one read delivers the first n bytes in flight
RL_Read ==
    /\ UNCHANGED connVars
    /\ At("read_lines", "loop")
    /\ \E n \in ReadSizes(wire) :
         LET r == ReadLinesOnData(ret, last_line_idx, Take(wire, n),
                                  termination.s, termination.keep)
         IN  /\ wire' = Drop(wire, n)
             /\ ret' = r.ret
             /\ last_line_idx' = r.lli
             /\ CASE r.out = "continue" -> UNCHANGED <<stack, retval>>
                  [] r.out = "break" -> Return([OkResult EXCEPT !.site = "line"])
                  [] r.out = "Disconnected" -> Return(ErrResult("None", "bye"))
    /\ UNCHANGED <<conf, entry, storeVars, processed, toolVars, collVars, jmapVars, blockingVars, eof, srv, tls_on, sent_log, termination, streamVars,
                   establishVars>>

\* Ok(0): the transport is at EOF; the loop breaks and Ok is returned
RL_Eof ==
    /\ UNCHANGED connVars
    /\ At("read_lines", "loop")
    /\ wire = <<>>
    /\ eof
    /\ Return([OkResult EXCEPT !.site = "eof"])
    /\ UNCHANGED <<conf, entry, storeVars, processed, toolVars, collVars, jmapVars, blockingVars, transportVars, framerVars, streamVars, establishVars>>

\* Err(e): the read fails
RL_Err ==
    /\ UNCHANGED connVars
    /\ At("read_lines", "loop")
    /\ Return(ErrResult("Network", "read"))
    /\ UNCHANGED <<conf, entry, storeVars, processed, toolVars, collVars, jmapVars, blockingVars, transportVars, framerVars, streamVars, establishVars>>

\* timeout(self.timeout, ..) expires with nothing to read
RL_Timeout ==
    /\ UNCHANGED connVars
    /\ At("read_lines", "loop")
    /\ conf.timeout
    /\ wire = <<>>
    /\ ~eof
    /\ Return(ErrResult("Timeout", "read"))
    /\ UNCHANGED <<conf, entry, storeVars, processed, toolVars, collVars, jmapVars, blockingVars, transportVars, framerVars, streamVars, establishVars>>

(***************************************************************************)
(* ImapStream::new_connection                                              *)
(***************************************************************************)
\* lookup_ipv4 and TcpStream::connect
NC_Start ==
    /\ UNCHANGED connVars
    /\ At("new_connection", "start")
    /\ \/ /\ stack' = Goto(IF ~conf.use_tls THEN "init"
                           ELSE IF conf.use_starttls THEN "stls_write" ELSE "tls")
          /\ UNCHANGED retval
       \/ \E k \in {"None", "Network"} : Return(ErrResult(k, "connect"))
    /\ UNCHANGED <<conf, entry, storeVars, processed, toolVars, collVars, jmapVars, blockingVars, transportVars, framerVars, streamVars, establishVars>>

\* ManageSieve: the greeting is read before STARTTLS is written
NC_SieveGreetingRead ==
    /\ UNCHANGED connVars
    /\ At("new_connection", "stls_write")
    /\ ~IsImap
    /\ \/ \E n \in ReadSizes(wire) :
            /\ wire' = Drop(wire, n)
            /\ stack' = Goto("stls_write2")
            /\ UNCHANGED retval
       \/ /\ wire = <<>> /\ eof
          /\ stack' = Goto("stls_write2")
          /\ UNCHANGED <<wire, retval>>
       \/ /\ Return(ErrResult("Network", "starttls"))
          /\ UNCHANGED wire
    /\ UNCHANGED <<conf, entry, storeVars, processed, toolVars, collVars, jmapVars, blockingVars, eof, srv, tls_on, sent_log, framerVars, streamVars,
                   establishVars>>

\* "M{cmd_id} STARTTLS\r\n" (IMAP) or "STARTTLS\r\n" is written and flushed;
\* cmd_id is not advanced
NC_StarttlsWrite ==
    /\ UNCHANGED connVars
    /\ \/ At("new_connection", "stls_write") /\ IsImap
       \/ At("new_connection", "stls_write2")
    /\ \/ /\ sent_log' = Append(sent_log, [tag |-> NextTag, cmd |-> "STARTTLS",
                                           tls |-> tls_on, full |-> TRUE])
          /\ srv' = [cmd |-> "STARTTLS", tag |-> NextTag, left |-> MaxLines,
                      out |-> <<>>]
          /\ response' = <<>>
          /\ elapsed' = 0
          /\ stack' = Goto("stls_check")
          /\ UNCHANGED retval
       \/ /\ Return(ErrResult("Network", "starttls"))
          /\ UNCHANGED <<sent_log, srv, response, elapsed>>
    /\ UNCHANGED <<conf, entry, storeVars, processed, toolVars, collVars, jmapVars, blockingVars, wire, eof, tls_on, framerVars, streamVars, accepted_at,
                   pre_caps, post_caps>>

\* `while now.elapsed().as_secs() < 3`, and `if !broken` after the loop
NC_StarttlsCheck ==
    /\ UNCHANGED connVars
    /\ At("new_connection", "stls_check")
    /\ IF elapsed < StarttlsSettleSecs
       THEN stack' = Goto("stls_read") /\ UNCHANGED retval
       ELSE Return(ErrResult("None", "starttls_window"))
    /\ UNCHANGED <<conf, entry, storeVars, processed, toolVars, collVars, jmapVars, blockingVars, transportVars, framerVars, streamVars, establishVars>>

\* The body of the STARTTLS loop after a read of `chunk`: the buffer left
\* and whether the loop breaks
StarttlsOnData(response0, chunk) ==
    LET r0 == response0 \o chunk
        greeted == IsImap /\ StartsWith(r0, B_STAR_OK) /\ Find(r0, CRLF) # -1
        r1 == IF greeted THEN From(r0, Find(r0, CRLF) + 2) ELSE r0
        sieveOk == ~IsImap /\ StartsWith(r0, B_OK_SP) /\ Find(r0, CRLF) # -1
    IN  IF sieveOk THEN [response |-> <<>>, broken |-> TRUE]
        ELSE [response |-> r1, broken |-> StartsWith(r1, B_M1_OK)]

\* One read of the STARTTLS loop; it has no timeout of its own
NC_StarttlsRead ==
    /\ UNCHANGED connVars
    /\ At("new_connection", "stls_read")
    /\ \/ \E n \in ReadSizes(wire) \cup {0} :
            /\ n = 0 => (wire = <<>> /\ eof)
            /\ LET r == StarttlsOnData(response, Take(wire, n))
               IN  /\ response' = r.response
                   /\ accepted_at' = IF r.broken THEN elapsed ELSE accepted_at
                   /\ stack' = Goto(IF r.broken THEN "tls" ELSE "stls_check")
            /\ wire' = Drop(wire, n)
            /\ UNCHANGED retval
       \/ /\ Return(ErrResult("Network", "starttls"))
          /\ UNCHANGED <<wire, response, accepted_at>>
    /\ UNCHANGED <<conf, entry, storeVars, processed, toolVars, collVars, jmapVars, blockingVars, eof, srv, tls_on, sent_log, framerVars, streamVars,
                   elapsed, pre_caps, post_caps>>

\* A second passes on the STARTTLS timer
TickElapsed ==
    /\ UNCHANGED connVars
    /\ \/ At("new_connection", "stls_check")
       \/ At("new_connection", "stls_read")
    /\ elapsed < MaxElapsed
    /\ elapsed' = elapsed + 1
    /\ UNCHANGED <<conf, entry, storeVars, processed, toolVars, collVars, jmapVars, blockingVars, transportVars, stack, retval, framerVars, streamVars,
                   response, accepted_at, pre_caps, post_caps>>

\* connector.connect(path, socket) and the handshake loop.  Plain bytes
\* still in flight are read by the TLS library as a record: the handshake
\* can succeed only when there are none.
NC_TlsHandshake ==
    /\ UNCHANGED connVars
    /\ At("new_connection", "tls")
    /\ \/ /\ wire = <<>>
          /\ tls_on' = TRUE
          /\ stack' = Goto("init")
          /\ UNCHANGED retval
       \/ /\ Return(ErrResult("Network", "tls"))
          /\ UNCHANGED tls_on
    /\ UNCHANGED <<conf, entry, storeVars, processed, toolVars, collVars, jmapVars, blockingVars, wire, eof, srv, sent_log, framerVars, streamVars,
                   establishVars>>

\* res.split_rn().find(|l| l.starts_with(b"* CAPABILITY")) and the parse of
\* that line; <<>> when there is no such line or it does not parse
PreAuthCapabilities(res) ==
    LET lines == SplitRn(res)
        hits == {i \in 1..Len(lines) : StartsWith(lines[i], B_STAR_CAPABILITY)}
    IN  IF hits = {} THEN <<>> ELSE ParseCapabilities(lines[Min(hits)])

\* CapabilityCheck with LOGINDISABLED compared byte for byte
CapabilityCheck_CaseSensitive(caps) ==
    IF caps = <<>> THEN "Bug"
    ELSE IF ~AnyCapIgnoreCase(caps, C_IMAP4REV1) THEN "NotImap4rev1"
    ELSE IF \E i \in 1..Len(caps) : caps[i] = C_LOGINDISABLED THEN "LoginDisabled"
    ELSE "ok"

\* The checks on the capabilities advertised before authentication
CapabilityCheck(caps) ==
    IF caps = <<>> THEN "Bug"
    ELSE IF ~AnyCapIgnoreCase(caps, C_IMAP4REV1) THEN "NotImap4rev1"
    ELSE IF AnyCapIgnoreCase(caps, C_LOGINDISABLED) THEN "LoginDisabled"
    ELSE "ok"

\* The error kind each failed check returns
CapabilityCheckKind(verdict) ==
    CASE verdict = "Bug" -> "Bug"
      [] verdict = "NotImap4rev1" -> "None"
      [] verdict = "LoginDisabled" -> "Authentication"

\* `match server_conf.protocol`: the command that authenticates, "none"
\* when OAUTH2 is enabled and AUTH=XOAUTH2 is not advertised
AuthCommand(caps) ==
    IF conf.oauth2
    THEN IF ~AnyCapIgnoreCase(caps, C_XOAUTH2) THEN "none" ELSE "AUTHENTICATE"
    ELSE "LOGIN"

\* The error kind of "OAUTH2 is enabled but server did not return
\* AUTH=XOAUTH2 capability": MeliError::new with no kind set
NoXoauth2Kind == "None"

\* `l[tag_start.len()..].trim().starts_with(b"OK ")`
LoginReplyOk(l, tag_start) == StartsWith(Trim(From(l, Len(tag_start))), B_OK_SP)

\* capabilities = protocol_parser::capabilities(&l).map(..).ok()
CapsOfLine(l) ==
    LET c == ParseCapabilities(l)
    IN  IF c = <<>> THEN NoCaps ELSE [some |-> TRUE, set |-> CapSet(c)]

RECURSIVE LoginScan(_, _, _, _)
\* `for l in res.split_rn()` of the loop that awaits the reply to
\* LOGIN/AUTHENTICATE
LoginScan(lines, tag_start, caps, should_break) ==
    IF lines = <<>> THEN [err |-> FALSE, caps |-> caps, should_break |-> should_break]
    ELSE LET l == Head(lines)
             caps1 == IF StartsWith(l, B_STAR_CAPABILITY) THEN CapsOfLine(l) ELSE caps
         IN  IF StartsWith(l, tag_start)
             THEN IF ~LoginReplyOk(l, tag_start)
                  THEN [err |-> TRUE, caps |-> caps1, should_break |-> should_break]
                  ELSE LoginScan(Tail(lines), tag_start, caps1, TRUE)
             ELSE LoginScan(Tail(lines), tag_start, caps1, should_break)

\* ImapStream { cmd_id, .. } is built; IMAP: CAPABILITY is sent and its
\* response awaited
NC_InitImap ==
    /\ UNCHANGED connVars
    /\ At("new_connection", "init")
    /\ IsImap
    /\ current_mailbox' = "None"
    /\ \/ /\ StreamSendOk("CAPABILITY")
          /\ EnterReadLines(ResponseId(cmd_id'), TRUE)
          /\ stack' = CallAt("cap_resp", "read_lines", "loop")
          /\ UNCHANGED retval
       \/ /\ \E tagWritten \in BOOLEAN : StreamSendFail("CAPABILITY", tagWritten)
          /\ Return(ErrResult("Network", "send"))
          /\ UNCHANGED framerVars
    /\ UNCHANGED <<conf, entry, storeVars, processed, toolVars, collVars, jmapVars, blockingVars, wire, eof, tls_on, establishVars>>

\* The CAPABILITY response is checked and LOGIN or AUTHENTICATE is sent
NC_CapResp ==
    /\ UNCHANGED connVars
    /\ At("new_connection", "cap_resp")
    /\ IF ~retval.ok
       THEN /\ Return(retval)
            /\ UNCHANGED <<srv, sent_log, cmd_id, framerVars, pre_caps, post_caps>>
       ELSE LET caps == PreAuthCapabilities(ret)
                verdict == CapabilityCheck(caps)
            IN  /\ pre_caps' = caps
                /\ IF verdict # "ok"
                   THEN /\ Return(ErrResult(CapabilityCheckKind(verdict), verdict))
                        /\ UNCHANGED <<srv, sent_log, cmd_id, framerVars, post_caps>>
                   ELSE IF AuthCommand(caps) = "none"
                   THEN /\ Return(ErrResult(NoXoauth2Kind, "no_xoauth2"))
                        /\ UNCHANGED <<srv, sent_log, cmd_id, framerVars, post_caps>>
                   ELSE \/ /\ StreamSendOk(AuthCommand(caps))
                           /\ post_caps' = NoCaps
                           /\ EnterReadLines(<<>>, FALSE)
                           /\ stack' = CallAt("login_resp", "read_lines", "loop")
                           /\ UNCHANGED retval
                        \/ /\ \E tagWritten \in BOOLEAN :
                                StreamSendFail(AuthCommand(caps), tagWritten)
                           /\ Return(ErrResult("Network", "send"))
                           /\ UNCHANGED <<framerVars, post_caps>>
    /\ UNCHANGED <<conf, entry, storeVars, processed, toolVars, collVars, jmapVars, blockingVars, wire, eof, tls_on, current_mailbox, response, elapsed,
                   accepted_at>>

\* One pass of the loop that awaits the reply to LOGIN/AUTHENTICATE, and
\* what follows it
NC_LoginResp ==
    /\ UNCHANGED connVars
    /\ At("new_connection", "login_resp")
    /\ IF ~retval.ok
       THEN /\ Return(retval)
            /\ UNCHANGED <<srv, sent_log, cmd_id, framerVars, post_caps>>
       ELSE LET scan == LoginScan(SplitRn(ret), Tag(cmd_id - 1), post_caps, FALSE)
            IN  /\ post_caps' = scan.caps
                /\ IF scan.err
                   THEN /\ Return(ErrResult("Authentication", "login"))
                        /\ UNCHANGED <<srv, sent_log, cmd_id, framerVars>>
                   ELSE IF ~scan.should_break
                   THEN /\ EnterReadLines(<<>>, FALSE)
                        /\ stack' = CallAt("login_resp", "read_lines", "loop")
                        /\ UNCHANGED <<srv, sent_log, cmd_id, retval>>
                   ELSE IF scan.caps.some
                   THEN /\ Return([OkResult EXCEPT !.caps = scan.caps.set])
                        /\ UNCHANGED <<srv, sent_log, cmd_id, framerVars>>
                   ELSE \/ /\ StreamSendOk("CAPABILITY")
                           /\ EnterReadLines(ResponseId(cmd_id'), TRUE)
                           /\ stack' = CallAt("post_resp", "read_lines", "loop")
                           /\ UNCHANGED retval
                        \/ /\ \E tagWritten \in BOOLEAN :
                                StreamSendFail("CAPABILITY", tagWritten)
                           /\ Return(ErrResult("Network", "send"))
                           /\ UNCHANGED framerVars
    /\ UNCHANGED <<conf, entry, storeVars, processed, toolVars, collVars, jmapVars, blockingVars, wire, eof, tls_on, current_mailbox, response, elapsed,
                   accepted_at, pre_caps>>

\* The CAPABILITY response after authentication: read_response(..).unwrap()
\* and protocol_parser::capabilities(&res)?
NC_PostResp ==
    /\ UNCHANGED connVars
    /\ At("new_connection", "post_resp")
    /\ IF ~retval.ok
       THEN Return(ErrResult("Panic", "unwrap"))
       ELSE LET caps == ParseCapabilities(ret)
            IN  IF caps = <<>>
                THEN Return(ErrResult("None", "post_capability"))
                ELSE Return([OkResult EXCEPT !.caps = CapSet(caps)])
    /\ UNCHANGED <<conf, entry, storeVars, processed, toolVars, collVars, jmapVars, blockingVars, transportVars, framerVars, streamVars, establishVars>>

\* ManageSieve: the greeting is read
NC_InitSieve ==
    /\ UNCHANGED connVars
    /\ At("new_connection", "init")
    /\ ~IsImap
    /\ current_mailbox' = "None"
    /\ EnterReadLines(ResponseId(cmd_id), TRUE)
    /\ stack' = CallAt("sieve_greeting", "read_lines", "loop")
    /\ UNCHANGED <<conf, entry, storeVars, processed, toolVars, collVars, jmapVars, blockingVars, transportVars, retval, cmd_id, establishVars>>

\* ManageSieve: AUTHENTICATE "PLAIN" is sent
NC_SieveAuth ==
    /\ UNCHANGED connVars
    /\ At("new_connection", "sieve_greeting")
    /\ IF ~retval.ok
       THEN /\ Return(retval)
            /\ UNCHANGED <<srv, sent_log, cmd_id, framerVars>>
       ELSE \/ /\ StreamSendOk("AUTHENTICATE")
               /\ EnterReadLines(ResponseId(cmd_id'), TRUE)
               /\ stack' = CallAt("sieve_auth", "read_lines", "loop")
               /\ UNCHANGED retval
            \/ /\ \E tagWritten \in BOOLEAN : StreamSendFail("AUTHENTICATE", tagWritten)
               /\ Return(ErrResult("Network", "send"))
               /\ UNCHANGED framerVars
    /\ UNCHANGED <<conf, entry, storeVars, processed, toolVars, collVars, jmapVars, blockingVars, wire, eof, tls_on, current_mailbox, establishVars>>

\* ManageSieve: the answer to AUTHENTICATE is read, whatever it says
NC_SieveDone ==
    /\ UNCHANGED connVars
    /\ At("new_connection", "sieve_auth")
    /\ IF ~retval.ok THEN Return(retval) ELSE Return(OkResult)
    /\ UNCHANGED <<conf, entry, storeVars, processed, toolVars, collVars, jmapVars, blockingVars, transportVars, framerVars, streamVars, establishVars>>

(***************************************************************************)
(* ImapConnection: the clock, the stream it holds                          *)
(***************************************************************************)
\* IMAP_PROTOCOL_TIMEOUT = 60 * 28 seconds, in minutes
IMAP_PROTOCOL_TIMEOUT == 28
\* The clock advances in steps of the protocol timeout
ClockStep == IMAP_PROTOCOL_TIMEOUT
\* Steps the clock is followed for
MaxClockSteps == 1
\* Streams one connection opens
MaxStreams == 3
\* cmd_id up to which the caller starts operations
MaxCmdId == 4

StreamOk == [ok |-> TRUE, kind |-> "None"]
StreamErr(kind) == [ok |-> FALSE, kind |-> kind]

Online(time) == [time |-> time, ok |-> TRUE, kind |-> "None"]

NoHeld ==
    [some |-> FALSE, cmd_id |-> 0, current_mailbox |-> "None", wire |-> <<>>,
     eof |-> FALSE, srv |-> Idle(<<>>), tls_on |-> FALSE, sent_log |-> <<>>]

\* The fields of the stream the connection holds
HeldStream ==
    [some |-> TRUE, cmd_id |-> cmd_id, current_mailbox |-> current_mailbox,
     wire |-> wire, eof |-> eof, srv |-> srv, tls_on |-> tls_on, sent_log |-> sent_log]

\* The locals of ImapStream::new_connection and of read_lines at their start
FreshLocals ==
    /\ ret' = <<>>
    /\ last_line_idx' = 0
    /\ termination' = [s |-> <<>>, keep |-> FALSE]
    /\ response' = <<>>
    /\ elapsed' = 0
    /\ accepted_at' = -1
    /\ pre_caps' = <<>>
    /\ post_caps' = NoCaps

\* `ImapStream::new_connection(&self.server_conf).await` of connect(): a
\* new transport and new locals; `cur` (self.stream) stays as it is until
\* the result replaces it
OpenStream(p, cur) ==
    /\ opened < MaxStreams
    /\ opened' = opened + 1
    /\ held' = IF cur.ok THEN HeldStream ELSE NoHeld
    /\ wire' = <<>>
    /\ eof' = FALSE
    /\ srv' = Greeting
    /\ tls_on' = FALSE
    /\ sent_log' = <<>>
    /\ cmd_id' = 1
    /\ current_mailbox' = "None"
    /\ FreshLocals
    /\ stack' = CallAt(p, "new_connection", "start")

\* `SystemTime::now().duration_since(time).unwrap_or_default() >=
\* IMAP_PROTOCOL_TIMEOUT` with a status of Ok(())
ProtocolTimedOut_Strict ==
    is_online.ok /\ Max({now - is_online.time, 0}) > IMAP_PROTOCOL_TIMEOUT

ProtocolTimedOut ==
    is_online.ok /\ Max({now - is_online.time, 0}) >= IMAP_PROTOCOL_TIMEOUT

(***************************************************************************)
(* ImapConnection::connect                                                 *)
(***************************************************************************)
\* Lines 609-634: the protocol timeout, then the NOOP probe of a stream
\* that is Ok, or a new stream
Conn_Start ==
    /\ At("connect", "start")
    /\ LET timed_out == ProtocolTimedOut
           stream1 == IF timed_out THEN StreamErr("Timeout") ELSE stream
       IN  /\ is_online' = IF timed_out
                           THEN [is_online EXCEPT !.ok = FALSE, !.kind = "Timeout"]
                           ELSE is_online
           /\ stream' = stream1
           /\ IF stream1.ok
              THEN /\ stack' = CallAt("noop_sent", "send_command", "NOOP")
                   /\ UNCHANGED <<transportVars, framerVars, streamVars, establishVars,
                                  held, opened>>
              ELSE OpenStream("opened", stream1)
    /\ UNCHANGED <<conf, entry, storeVars, processed, toolVars, collVars, jmapVars, blockingVars, retval, now, sync_policy, capabilities, new_caps, required,
                   out, notices>>

\* send_command(b"NOOP") has returned: on Ok the response is read, on Err
\* a new stream is opened
Conn_NoopSent ==
    /\ At("connect", "noop_sent")
    /\ IF retval.ok
       THEN /\ required' = "empty"
            /\ stack' = CallAt("noop_resp", "read_response", "start")
            /\ UNCHANGED <<transportVars, framerVars, streamVars, establishVars,
                           held, opened>>
       ELSE /\ OpenStream("opened", stream)
            /\ UNCHANGED required
    /\ UNCHANGED <<conf, entry, storeVars, processed, toolVars, collVars, jmapVars, blockingVars, retval, now, stream, is_online, sync_policy, capabilities,
                   new_caps, out, notices>>

\* connect() without the `return Ok(())` of line 631: a new stream is
\* opened after a probe that succeeded too
Conn_NoopResp_FallsThrough ==
    /\ At("connect", "noop_resp")
    /\ OpenStream("opened", stream)
    /\ UNCHANGED <<conf, entry, storeVars, processed, toolVars, collVars, jmapVars, blockingVars, retval, now, stream, is_online, sync_policy, capabilities,
                   new_caps, required, out, notices>>

\* read_response of the NOOP probe has returned: Ok ends connect()
Conn_NoopResp ==
    /\ At("connect", "noop_resp")
    /\ IF retval.ok
       THEN /\ Return(OkResult)
            /\ UNCHANGED <<transportVars, framerVars, streamVars, establishVars,
                           held, opened>>
       ELSE /\ OpenStream("opened", stream)
            /\ UNCHANGED retval
    /\ UNCHANGED <<conf, entry, storeVars, processed, toolVars, collVars, jmapVars, blockingVars, now, stream, is_online, sync_policy, capabilities, new_caps,
                   required, out, notices>>

\* The stream the connection held is in place again; with none held, the
\* fields take the values that stand for no stream
RestoreHeld ==
    /\ cmd_id' = held.cmd_id
    /\ current_mailbox' = held.current_mailbox
    /\ wire' = held.wire
    /\ eof' = held.eof
    /\ srv' = held.srv
    /\ tls_on' = held.tls_on
    /\ sent_log' = held.sent_log

\* `capabilities.contains(&b"CONDSTORE"[..]) && condstore` under a
\* sync_policy other than None: the command that upgrades, "none" otherwise
UpgradeCommand(caps) ==
    IF IsImap /\ C_CONDSTORE \in caps /\ conf.condstore /\ sync_policy # "None"
    THEN IF C_ENABLE \in caps THEN "ENABLE" ELSE "STATUS"
    ELSE "none"

\* connect() that hands the selection of the stream it replaces on to the
\* new stream
Conn_Opened_InheritsSelection ==
    /\ At("connect", "opened")
    /\ held' = NoHeld
    /\ FreshLocals
    /\ IF ~retval.ok
       THEN /\ is_online' = [is_online EXCEPT !.ok = FALSE, !.kind = retval.kind]
            /\ RestoreHeld
            /\ Return(retval)
            /\ UNCHANGED <<stream, capabilities, new_caps>>
       ELSE /\ is_online' = Online(now)
            /\ stream' = StreamOk
            /\ new_caps' = retval.caps
            /\ current_mailbox' = held.current_mailbox
            /\ UNCHANGED <<transportVars, cmd_id>>
            /\ IF UpgradeCommand(retval.caps) # "none"
               THEN /\ stack' = CallAt("upgrade_sent", "send_command",
                                       UpgradeCommand(retval.caps))
                    /\ UNCHANGED <<retval, capabilities>>
               ELSE /\ capabilities' = retval.caps
                    /\ Return(OkResult)
    /\ UNCHANGED <<conf, entry, storeVars, processed, toolVars, collVars, jmapVars, blockingVars, now, sync_policy, required, out, notices, opened>>

\* Lines 635-674 and 710: the result of ImapStream::new_connection
Conn_Opened ==
    /\ At("connect", "opened")
    /\ held' = NoHeld
    /\ FreshLocals
    /\ IF ~retval.ok
       THEN /\ is_online' = [is_online EXCEPT !.ok = FALSE, !.kind = retval.kind]
            /\ RestoreHeld
            /\ Return(retval)
            /\ UNCHANGED <<stream, capabilities, new_caps>>
       ELSE /\ is_online' = Online(now)
            /\ stream' = StreamOk
            /\ new_caps' = retval.caps
            /\ UNCHANGED <<transportVars, streamVars>>
            /\ IF UpgradeCommand(retval.caps) # "none"
               THEN /\ stack' = CallAt("upgrade_sent", "send_command",
                                       UpgradeCommand(retval.caps))
                    /\ UNCHANGED <<retval, capabilities>>
               ELSE /\ capabilities' = retval.caps
                    /\ Return(OkResult)
    /\ UNCHANGED <<conf, entry, storeVars, processed, toolVars, collVars, jmapVars, blockingVars, now, sync_policy, required, out, notices, opened>>

\* ENABLE CONDSTORE or STATUS has been sent
Conn_UpgradeSent ==
    /\ At("connect", "upgrade_sent")
    /\ IF retval.ok
       THEN /\ required' = "empty"
            /\ stack' = CallAt("upgrade_resp", "read_response", "start")
            /\ UNCHANGED retval
       ELSE /\ Return(retval)
            /\ UNCHANGED required
    /\ UNCHANGED <<conf, entry, storeVars, processed, toolVars, collVars, jmapVars, blockingVars, transportVars, framerVars, streamVars, establishVars, now,
                   stream, held, is_online, sync_policy, capabilities, new_caps, out,
                   notices, opened>>

\* connect() that turns synchronisation off when the upgrade fails
Conn_UpgradeResp_FallsBack ==
    /\ At("connect", "upgrade_resp")
    /\ IF retval.ok
       THEN /\ sync_policy' = "Condstore"
            /\ capabilities' = new_caps
            /\ Return(OkResult)
       ELSE /\ sync_policy' = "None"
            /\ Return(retval)
            /\ UNCHANGED capabilities
    /\ UNCHANGED <<conf, entry, storeVars, processed, toolVars, collVars, jmapVars, blockingVars, transportVars, framerVars, streamVars, establishVars, now,
                   stream, held, is_online, new_caps, required, out, notices, opened>>

\* The response to the upgrade has been read: lines 671 and 710
Conn_UpgradeResp ==
    /\ At("connect", "upgrade_resp")
    /\ IF retval.ok
       THEN /\ sync_policy' = "Condstore"
            /\ capabilities' = new_caps
            /\ Return(OkResult)
       ELSE /\ Return(retval)
            /\ UNCHANGED <<sync_policy, capabilities>>
    /\ UNCHANGED <<conf, entry, storeVars, processed, toolVars, collVars, jmapVars, blockingVars, transportVars, framerVars, streamVars, establishVars, now,
                   stream, held, is_online, new_caps, required, out, notices, opened>>

(***************************************************************************)
(* ImapConnection::send_command                                            *)
(***************************************************************************)
\* The commands written after a stream is established
Commands == {"NOOP", "ENABLE", "STATUS", "UNSELECT", "SELECT"}

\* Lines 824-835: the command is written on the stream; on an error the
\* stream is replaced by the error and, if it is a network error,
\* connect() is called
SC_Send ==
    /\ stack # <<>>
    /\ Top.fn = "send_command"
    /\ Top.pc \in Commands
    /\ IF ~stream.ok
       THEN /\ IF stream.kind = "Network"
               THEN stack' = CallAt("reconnect", "connect", "start") /\ UNCHANGED retval
               ELSE Return(ErrResult(stream.kind, "stream"))
            /\ UNCHANGED <<srv, sent_log, cmd_id, stream, is_online>>
       ELSE \/ /\ StreamSendOk(Top.pc)
               /\ is_online' = Online(now)
               /\ Return(OkResult)
               /\ UNCHANGED stream
            \/ /\ \E tagWritten \in BOOLEAN : StreamSendFail(Top.pc, tagWritten)
               /\ stream' = StreamErr("Network")
               /\ stack' = CallAt("reconnect", "connect", "start")
               /\ UNCHANGED <<retval, is_online>>
    /\ UNCHANGED <<conf, entry, storeVars, processed, toolVars, collVars, jmapVars, blockingVars, wire, eof, tls_on, framerVars, current_mailbox, establishVars,
                   now, held, sync_policy, capabilities, new_caps, required, out,
                   notices, opened>>

\* Lines 829-831: `self.connect().await?; Err(err)`
SC_Reconnected ==
    /\ At("send_command", "reconnect")
    /\ IF retval.ok THEN Return(ErrResult("Network", "send")) ELSE Return(retval)
    /\ UNCHANGED <<conf, entry, storeVars, processed, toolVars, collVars, jmapVars, blockingVars, transportVars, framerVars, streamVars, establishVars, connVars>>

(***************************************************************************)
(* ImapConnection::read_response                                           *)
(***************************************************************************)
\* b"EXISTS"
B_EXISTS == <<"E", "X", "I", "S", "T", "S">>

\* The word after the first space of a line, trimmed
StatusPart(l) == IF Find(l, <<SP>>) = -1 THEN <<>> ELSE Trim(From(l, Find(l, <<SP>>) + 1))

\* ImapResponse::try_from: the kind of reply the last line of the buffer
\* is, "Err" when it is none
ImapResponseOf(buf) ==
    LET lines == SplitRn(buf)
        val == IF lines = <<>> THEN <<>> ELSE StatusPart(lines[Len(lines)])
    IN  IF StartsWith(val, W_OK) THEN "Ok"
        ELSE IF StartsWith(val, W_NO) THEN "No"
        ELSE IF StartsWith(val, W_BAD) THEN "Bad"
        ELSE IF StartsWith(val, <<"B", "Y", "E">>) THEN "Bye"
        ELSE "Err"

\* `r.into()`: the Result of a reply
IntoResult(r) ==
    IF r = "Ok" THEN OkResult ELSE ErrResult("None", r)

\* required_responses.check(l)
RequiredCheck(l, req) == req = "EXISTS" /\ Find(l, B_EXISTS) # -1

\* process_untagged(l): TRUE when the line was consumed as an event
ProcessUntagged(l) == StartsWith(l, <<"*", SP>>) /\ Find(l, B_EXISTS) # -1

RECURSIVE Retained(_, _)
\* `for l in response.split_rn()`: the lines kept for the caller
Retained(lines, req) ==
    IF lines = <<>> THEN <<>>
    ELSE (IF RequiredCheck(Head(lines), req) \/ ~ProcessUntagged(Head(lines))
          THEN Head(lines) ELSE <<>>) \o Retained(Tail(lines), req)

\* `for l in response.split_rn()` with process_untagged called on every line
PassedOn_EveryLine(lines, req) == lines

\* `for l in response.split_rn()`: the lines process_untagged is called with,
\* those `required_responses.check(l) ||` does not cut short
PassedOn(lines, req) == SelectSeq(lines, LAMBDA l : ~RequiredCheck(l, req))

\* Lines 721-723: the caller's buffer is cleared and the stream's
\* read_response is called
RR_Start ==
    /\ At("read_response", "start")
    /\ out' = <<>>
    /\ notices' = 0
    /\ processed' = <<>>
    /\ IF ~stream.ok
       THEN /\ Return(ErrResult(stream.kind, "stream"))
            /\ required' = "empty"
            /\ UNCHANGED framerVars
       ELSE /\ EnterReadLines(ResponseId(cmd_id), TRUE)
            /\ stack' = CallAt("resp", "read_lines", "loop")
            /\ UNCHANGED <<retval, required>>
    /\ UNCHANGED <<conf, entry, storeVars, toolVars, collVars, jmapVars, blockingVars, transportVars, streamVars, establishVars, now, stream, held,
                   is_online, sync_policy, capabilities, new_caps, opened>>

\* read_response that takes no account of NO_REQUIRED
RR_Resp_IgnoresRequired ==
    /\ At("read_response", "resp")
    /\ IF ~retval.ok
       THEN /\ Return(retval)
            /\ UNCHANGED <<stream, is_online, out, notices, processed>>
       ELSE /\ is_online' = Online(now)
            /\ IF ~IsImap
               THEN /\ out' = ret
                    /\ Return(OkResult)
                    /\ UNCHANGED <<stream, notices, processed>>
               ELSE LET r == ImapResponseOf(ret)
                    IN  CASE r = "Err" ->
                               /\ Return(ErrResult("None", "try_from"))
                               /\ UNCHANGED <<stream, out, notices, processed>>
                          [] r = "Bye" ->
                               /\ stream' = StreamErr("None")
                               /\ out' = ret
                               /\ Return(IntoResult(r))
                               /\ UNCHANGED <<notices, processed>>
                          [] r \in {"No", "Bad"} ->
                               /\ notices' = notices + 1
                               /\ out' = ret
                               /\ Return(IntoResult(r))
                               /\ UNCHANGED <<stream, processed>>
                          [] OTHER ->
                               /\ out' = Retained(SplitRn(ret), required)
                               /\ processed' = PassedOn(SplitRn(ret), required)
                               /\ Return(OkResult)
                               /\ UNCHANGED <<stream, notices>>
    /\ required' = "empty"
    /\ UNCHANGED <<conf, entry, storeVars, toolVars, collVars, jmapVars, blockingVars, transportVars, framerVars, streamVars, establishVars, now,
                   held, sync_policy, capabilities, new_caps, opened>>

\* Lines 723-799: the stream's read_response has returned.  `required` ends
\* with the call.
RR_Resp ==
    /\ At("read_response", "resp")
    /\ IF ~retval.ok
       THEN /\ Return(retval)
            /\ UNCHANGED <<stream, is_online, out, notices, processed>>
       ELSE /\ is_online' = Online(now)
            /\ IF ~IsImap
               THEN /\ out' = ret
                    /\ Return(OkResult)
                    /\ UNCHANGED <<stream, notices, processed>>
               ELSE LET r == ImapResponseOf(ret)
                    IN  CASE r = "Err" ->
                               /\ Return(ErrResult("None", "try_from"))
                               /\ UNCHANGED <<stream, out, notices, processed>>
                          [] r = "Bye" ->
                               /\ stream' = StreamErr("None")
                               /\ out' = ret
                               /\ Return(IntoResult(r))
                               /\ UNCHANGED <<notices, processed>>
                          [] r \in {"No", "Bad"} /\ ~(r = "No" /\ required = "NO_REQUIRED") ->
                               /\ notices' = notices + 1
                               /\ out' = ret
                               /\ Return(IntoResult(r))
                               /\ UNCHANGED <<stream, processed>>
                          [] OTHER ->
                               /\ out' = Retained(SplitRn(ret), required)
                               /\ processed' = PassedOn(SplitRn(ret), required)
                               /\ Return(OkResult)
                               /\ UNCHANGED <<stream, notices>>
    /\ required' = "empty"
    /\ UNCHANGED <<conf, entry, storeVars, toolVars, collVars, jmapVars, blockingVars, transportVars, framerVars, streamVars, establishVars, now,
                   held, sync_policy, capabilities, new_caps, opened>>

(***************************************************************************)
(* The caller of the connection and the clock                              *)
(***************************************************************************)
\* The caller starts an operation: the result and the buffers of the
\* operation before it are gone
\* No operation started yet
NoArgs == [mailbox_hash |-> "none", force |-> FALSE]
NoEntry ==
    [fn |-> "none", args |-> NoArgs, live |-> FALSE, stream |-> StreamErr("None"),
     cmd_id |-> 0,
     current_mailbox |-> "None", sync_policy |-> "None", capabilities |-> {},
     opened |-> 0, sent_log |-> <<>>]

\* The operation f(args) the caller starts, with what the connection holds
\* at that moment; live: a stream that is Ok, last contact within the
\* protocol timeout
EntryOf(f, args) ==
    [fn |-> f, args |-> args, live |-> stream.ok /\ ~ProtocolTimedOut, stream |-> stream,
     cmd_id |-> cmd_id,
     current_mailbox |-> current_mailbox, sync_policy |-> sync_policy,
     capabilities |-> capabilities, opened |-> opened, sent_log |-> sent_log]

NewCallWith(f, p, args) ==
    /\ stack = <<>>
    /\ stack' = <<[fn |-> f, pc |-> p]>>
    /\ entry' = EntryOf(f, args)
    /\ retval' = NoResult
    /\ FreshLocals
    /\ out' = <<>>
    /\ notices' = 0

NewCall(f, p) == NewCallWith(f, p, NoArgs)

CallConnect ==
    /\ cmd_id < MaxCmdId
    /\ NewCall("connect", "start")
    /\ UNCHANGED <<conf, storeVars, processed, toolVars, collVars, jmapVars, blockingVars, transportVars, streamVars, now, stream, held, is_online,
                   sync_policy, capabilities, new_caps, required, opened>>

CallSendCommand ==
    /\ cmd_id < MaxCmdId
    /\ NewCall("send_command", "NOOP")
    /\ UNCHANGED <<conf, storeVars, processed, toolVars, collVars, jmapVars, blockingVars, transportVars, streamVars, now, stream, held, is_online,
                   sync_policy, capabilities, new_caps, required, opened>>

CallReadResponse ==
    /\ \E req \in {"empty", "NO_REQUIRED"} : required' = req
    /\ NewCall("read_response", "start")
    /\ UNCHANGED <<conf, storeVars, processed, toolVars, collVars, jmapVars, blockingVars, transportVars, streamVars, now, stream, held, is_online,
                   sync_policy, capabilities, new_caps, opened>>

\* The caller reads a response of which it wants the EXISTS lines
CallReadResponseRequiring ==
    /\ required' = "EXISTS"
    /\ NewCall("read_response", "start")
    /\ UNCHANGED <<conf, storeVars, processed, toolVars, collVars, jmapVars, blockingVars, transportVars, streamVars, now, stream, held, is_online,
                   sync_policy, capabilities, new_caps, opened>>

\* Time passes between two operations.  Only the time since the last
\* contact is ever looked at, and only under a status of Ok.
Tick ==
    /\ stack = <<>>
    /\ is_online.ok
    /\ now < MaxClockSteps * ClockStep
    /\ now' = now + ClockStep
    /\ UNCHANGED <<conf, entry, storeVars, processed, toolVars, collVars, jmapVars, blockingVars, transportVars, stack, retval, framerVars, streamVars,
                   establishVars, stream, held, is_online, sync_policy, capabilities,
                   new_caps, required, out, notices, opened>>

(***************************************************************************)
(* ImapConnection::select_mailbox, examine_mailbox and unselect            *)
(***************************************************************************)
\* MailboxSelection::Select(h) and MailboxSelection::Examine(h)
Select(h) == IF h = "h1" THEN "Select(h1)" ELSE "Select(h2)"
Examine(h) == IF h = "h1" THEN "Examine(h1)" ELSE "Examine(h2)"

\* select_mailbox with a SELECT written whatever the selection is
SelectMailbox_Writes ==
    /\ At("select_mailbox", "start")
    /\ stream.ok
    /\ StreamSendOk("SELECT")
    /\ Return(OkResult)
    /\ UNCHANGED <<conf, entry, storeVars, processed, toolVars, collVars, jmapVars, blockingVars, wire, eof, tls_on, framerVars, current_mailbox,
                   establishVars, connVars>>

\* Lines 871-878: select_mailbox returns Ok(None)
SelectMailbox ==
    /\ At("select_mailbox", "start")
    /\ Return(OkResult)
    /\ UNCHANGED <<conf, entry, storeVars, processed, toolVars, collVars, jmapVars, blockingVars, transportVars, framerVars, streamVars, establishVars,
                   connVars>>

\* Lines 880-887: examine_mailbox returns Ok(None)
ExamineMailbox ==
    /\ At("examine_mailbox", "start")
    /\ Return(OkResult)
    /\ UNCHANGED <<conf, entry, storeVars, processed, toolVars, collVars, jmapVars, blockingVars, transportVars, framerVars, streamVars, establishVars,
                   connVars>>

\* `.any(|cap| cap == b"UNSELECT")`
HasUnselect_CaseSensitive(caps) == C_UNSELECT \in caps

\* Lines 894-899: `.any(|cap| cap.eq_ignore_ascii_case(b"UNSELECT"))`
HasUnselect(caps) == \E cap \in caps : EqIgnoreAsciiCase(cap, C_UNSELECT)

\* Lines 890-923: `self.stream.as_mut()?.current_mailbox.take()`, then
\* UNSELECT or SELECT "blurdybloop" when a mailbox was selected
Unselect_Start ==
    /\ At("unselect", "start")
    /\ IF ~stream.ok
       THEN /\ Return(ErrResult(stream.kind, "stream"))
            /\ UNCHANGED current_mailbox
       ELSE /\ current_mailbox' = "None"
            /\ IF current_mailbox = "None"
               THEN Return(OkResult)
               ELSE /\ stack' = CallAt("sent", "send_command",
                                       IF HasUnselect(capabilities) THEN "UNSELECT"
                                       ELSE "SELECT")
                    /\ UNCHANGED retval
    /\ UNCHANGED <<conf, entry, storeVars, processed, toolVars, collVars, jmapVars, blockingVars, transportVars, framerVars, cmd_id, establishVars, connVars>>

\* Lines 901-904 and 918-921: send_command has returned; the response is
\* read, with NO_REQUIRED after SELECT "blurdybloop"
Unselect_Sent ==
    /\ At("unselect", "sent")
    /\ IF retval.ok
       THEN /\ required' = (IF sent_log[Len(sent_log)].cmd = "SELECT" THEN "NO_REQUIRED"
                            ELSE "empty")
            /\ stack' = CallAt("resp", "read_response", "start")
            /\ UNCHANGED retval
       ELSE /\ Return(retval)
            /\ UNCHANGED required
    /\ UNCHANGED <<conf, entry, storeVars, processed, toolVars, collVars, jmapVars, blockingVars, transportVars, framerVars, streamVars, establishVars, now,
                   stream, held, is_online, sync_policy, capabilities, new_caps, out,
                   notices, opened>>

\* Lines 902-903, 919-920 and 925: `read_response(..).await?`, then Ok(())
Unselect_Resp ==
    /\ At("unselect", "resp")
    /\ IF retval.ok THEN Return(OkResult) ELSE Return(retval)
    /\ UNCHANGED <<conf, entry, storeVars, processed, toolVars, collVars, jmapVars, blockingVars, transportVars, framerVars, streamVars, establishVars,
                   connVars>>

CallSelectMailbox ==
    /\ \E h \in MailboxHashes, force \in BOOLEAN :
         NewCallWith("select_mailbox", "start", [mailbox_hash |-> h, force |-> force])
    /\ UNCHANGED <<conf, storeVars, processed, toolVars, collVars, jmapVars, blockingVars, transportVars, streamVars, now, stream, held, is_online,
                   sync_policy, capabilities, new_caps, required, opened>>

CallExamineMailbox ==
    /\ \E h \in MailboxHashes, force \in BOOLEAN :
         NewCallWith("examine_mailbox", "start", [mailbox_hash |-> h, force |-> force])
    /\ UNCHANGED <<conf, storeVars, processed, toolVars, collVars, jmapVars, blockingVars, transportVars, streamVars, now, stream, held, is_online,
                   sync_policy, capabilities, new_caps, required, opened>>

CallUnselect ==
    /\ cmd_id < MaxCmdId
    /\ NewCall("unselect", "start")
    /\ UNCHANGED <<conf, storeVars, processed, toolVars, collVars, jmapVars, blockingVars, transportVars, streamVars, now, stream, held, is_online,
                   sync_policy, capabilities, new_caps, required, opened>>

(***************************************************************************)
(* Stream establishment on its own                                         *)
(***************************************************************************)
Confs ==
    { c \in [server_hostname : {"any", "rfc3501"}, use_tls : BOOLEAN,
             use_starttls : BOOLEAN, protocol : {"IMAP", "ManageSieve"},
             oauth2 : BOOLEAN, condstore : BOOLEAN, timeout : BOOLEAN,
             keep_offline_cache : BOOLEAN] :
        /\ c.use_starttls => c.use_tls
        /\ c.oauth2 => c.protocol = "IMAP" }

IsImapConf(c) == c.protocol = "IMAP"

StreamInit ==
    /\ conf \in {c \in Confs : c.server_hostname = "any" /\ c.timeout /\ c.condstore
                                /\ ~c.keep_offline_cache}
    /\ wire = <<>>
    /\ eof = FALSE
    /\ srv = Greeting
    /\ tls_on = FALSE
    /\ sent_log = <<>>
    /\ stack = <<[fn |-> "new_connection", pc |-> "start"]>>
    /\ retval = NoResult
    /\ cmd_id = 1
    /\ current_mailbox = "None"
    /\ ret = <<>>
    /\ last_line_idx = 0
    /\ termination = [s |-> <<>>, keep |-> FALSE]
    /\ response = <<>>
    /\ elapsed = 0
    /\ accepted_at = -1
    /\ pre_caps = <<>>
    /\ post_caps = NoCaps
    /\ now = 0
    /\ stream = StreamErr("None")
    /\ held = NoHeld
    /\ is_online = [time |-> 0, ok |-> FALSE, kind |-> "None"]
    /\ sync_policy = "None"
    /\ capabilities = {}
    /\ new_caps = {}
    /\ required = "empty"
    /\ out = <<>>
    /\ notices = 0
    /\ processed = <<>>
    /\ opened = 0
    /\ entry = NoEntry
    /\ NoCollection
    /\ NoTools
    /\ NoJmap
    /\ NoBlocking
    /\ uid_store = EmptyStore
    /\ mailboxes = [h \in MailboxHashes |-> 42]

StreamNext ==
    \/ NC_Start
    \/ NC_SieveGreetingRead
    \/ NC_StarttlsWrite
    \/ NC_StarttlsCheck
    \/ NC_StarttlsRead
    \/ TickElapsed
    \/ NC_TlsHandshake
    \/ NC_InitImap
    \/ NC_CapResp
    \/ NC_LoginResp
    \/ NC_PostResp
    \/ NC_InitSieve
    \/ NC_SieveAuth
    \/ NC_SieveDone
    \/ RL_Read
    \/ RL_Eof
    \/ RL_Err
    \/ RL_Timeout
    \/ ServerSend
    \/ ServerClose

SpecStream == StreamInit /\ [][StreamNext]_vars

\* The positions of new_connection
EstablishPcs ==
    {"start", "sieve_greeting", "stls_write", "stls_write2", "stls_check", "stls_read",
     "tls", "init", "cap_resp", "login_resp", "post_resp", "sieve_auth"}

\* The call stacks of an establishment: returned, in new_connection, in a
\* read_lines it called
EstablishStacks ==
    {<<>>}
    \cup {<<[fn |-> "new_connection", pc |-> p]>> : p \in EstablishPcs}
    \cup {<<[fn |-> "new_connection", pc |-> p], [fn |-> "read_lines", pc |-> "loop"]>> :
             p \in EstablishPcs}

\* A step of the task that establishes the stream, on a transport that is
\* closed: every read returns at once (Ok(0) or an error), so the task can
\* always go on to its next position
PolledAfterClose ==
    /\ stack # <<>>
    /\ eof
    /\ stack' \in EstablishStacks
    /\ stack' # stack

\* The executor polls the task for as long as it can take a step, and time
\* passes; nothing is assumed of the server or of failing reads
SpecStreamLive == SpecStream /\ WF_stack(PolledAfterClose) /\ WF_elapsed(TickElapsed)

(***************************************************************************)
(* The wire framer on its own: read_lines on the answer to one command     *)
(***************************************************************************)
\* The (termination_string, keep_termination_string) pairs of the callers:
\* ImapStream::read_response, the LOGIN loop, ImapConnection::read_lines
Terminations(id) ==
    { [s |-> Tag(id), keep |-> TRUE],
      [s |-> <<>>, keep |-> FALSE],
      [s |-> Tag(id), keep |-> FALSE] }

\* read_lines has cleared `ret`; the command M{cmd_id - 1} has been sent
FramerInit ==
    /\ conf \in {c \in Confs : c.server_hostname = "any" /\ ~c.use_tls /\ IsImapConf(c)
                                /\ ~c.oauth2 /\ c.condstore /\ ~c.keep_offline_cache}
    /\ cmd_id \in {2, 3}
    /\ current_mailbox = "None"
    /\ wire = <<>>
    /\ eof = FALSE
    /\ srv = [cmd |-> "NOOP", tag |-> cmd_id - 1, left |-> MaxLines, out |-> <<>>]
    /\ tls_on = FALSE
    /\ sent_log = <<[tag |-> cmd_id - 1, cmd |-> "NOOP", tls |-> FALSE, full |-> TRUE]>>
    /\ stack = <<[fn |-> "read_lines", pc |-> "loop"]>>
    /\ retval = NoResult
    /\ ret = <<>>
    /\ last_line_idx = 0
    /\ termination \in Terminations(cmd_id - 1)
    /\ response = <<>>
    /\ elapsed = 0
    /\ accepted_at = -1
    /\ pre_caps = <<>>
    /\ post_caps = NoCaps
    /\ now = 0
    /\ stream = StreamOk
    /\ held = NoHeld
    /\ is_online = Online(0)
    /\ sync_policy = "None"
    /\ capabilities = {}
    /\ new_caps = {}
    /\ required = "empty"
    /\ out = <<>>
    /\ notices = 0
    /\ processed = <<>>
    /\ opened = 1
    /\ entry = NoEntry
    /\ NoCollection
    /\ NoTools
    /\ NoJmap
    /\ NoBlocking
    /\ uid_store = EmptyStore
    /\ mailboxes = [h \in MailboxHashes |-> 42]

FramerNext ==
    \/ RL_Read
    \/ RL_Eof
    \/ RL_Err
    \/ RL_Timeout
    \/ ServerSend
    \/ ServerClose

SpecFramer == FramerInit /\ [][FramerNext]_vars

(***************************************************************************)
(* The connection: ImapConnection::new_connection and its operations       *)
(***************************************************************************)
\* No transport: the values of a stream's fields when there is no stream
NoStream ==
    /\ wire = <<>>
    /\ eof = FALSE
    /\ srv = Idle(<<>>)
    /\ tls_on = FALSE
    /\ sent_log = <<>>
    /\ cmd_id = 0
    /\ current_mailbox = "None"

\* The locals of the functions that are not running
NoLocals ==
    /\ ret = <<>>
    /\ last_line_idx = 0
    /\ termination = [s |-> <<>>, keep |-> FALSE]
    /\ response = <<>>
    /\ elapsed = 0
    /\ accepted_at = -1
    /\ pre_caps = <<>>
    /\ post_caps = NoCaps

\* ImapConnection::new_connection
Init ==
    /\ conf \in {c \in Confs : c.server_hostname = "rfc3501" /\ ~c.use_tls
                                /\ IsImapConf(c) /\ ~c.oauth2 /\ c.timeout /\ c.condstore}
    /\ NoStream
    /\ NoLocals
    /\ stack = <<>>
    /\ retval = NoResult
    /\ now = 0
    /\ stream = StreamErr("None")
    /\ held = NoHeld
    /\ is_online = [time |-> 0, ok |-> FALSE, kind |-> "None"]
    /\ sync_policy = (IF conf.keep_offline_cache THEN "Basic" ELSE "None")
    /\ capabilities = {}
    /\ new_caps = {}
    /\ required = "empty"
    /\ out = <<>>
    /\ notices = 0
    /\ processed = <<>>
    /\ opened = 0
    /\ entry = NoEntry
    /\ NoCollection
    /\ NoTools
    /\ NoJmap
    /\ NoBlocking
    /\ uid_store = EmptyStore
    /\ mailboxes = [h \in MailboxHashes |-> 42]

Next ==
    \/ CallConnect
    \/ CallSendCommand
    \/ CallReadResponse
    \/ Tick
    \/ Conn_Start
    \/ Conn_NoopSent
    \/ Conn_NoopResp
    \/ Conn_Opened
    \/ Conn_UpgradeSent
    \/ Conn_UpgradeResp
    \/ SC_Send
    \/ SC_Reconnected
    \/ RR_Start
    \/ RR_Resp
    \/ NC_Start
    \/ NC_InitImap
    \/ NC_CapResp
    \/ NC_LoginResp
    \/ NC_PostResp
    \/ RL_Read
    \/ RL_Eof
    \/ RL_Err
    \/ RL_Timeout
    \/ ServerSend
    \/ ServerClose

Spec == Init /\ [][Next]_vars

(***************************************************************************)
(* The mailbox operations on a connection that is ready                    *)
(***************************************************************************)
\* The capability sets a connection may have published
ReadyCapabilities ==
    { {C_IMAP4REV1}, {C_IMAP4REV1, C_UNSELECT}, {C_IMAP4REV1, C_unselect_mixed} }

\* A connection after a connect() that returned Ok: the stream has been
\* through CAPABILITY and LOGIN.  current_mailbox is a public field of
\* ImapStream; it holds any MailboxSelection.
MailboxInit ==
    /\ conf \in {c \in Confs : c.server_hostname = "rfc3501" /\ ~c.use_tls
                                /\ IsImapConf(c) /\ ~c.oauth2 /\ c.timeout /\ c.condstore
                                /\ c.keep_offline_cache}
    /\ wire = <<>>
    /\ eof = FALSE
    /\ srv = Idle(<<>>)
    /\ tls_on = FALSE
    /\ sent_log = <<[tag |-> 1, cmd |-> "CAPABILITY", tls |-> FALSE, full |-> TRUE],
                    [tag |-> 2, cmd |-> "LOGIN", tls |-> FALSE, full |-> TRUE]>>
    /\ cmd_id = 3
    /\ current_mailbox \in {"None", Select("h1"), Examine("h1")}
    /\ NoLocals
    /\ stack = <<>>
    /\ retval = NoResult
    /\ now = 0
    /\ stream = StreamOk
    /\ held = NoHeld
    /\ is_online = Online(0)
    /\ sync_policy = "Basic"
    /\ capabilities \in ReadyCapabilities
    /\ new_caps = capabilities
    /\ required = "empty"
    /\ out = <<>>
    /\ notices = 0
    /\ processed = <<>>
    /\ opened = MaxStreams - 1
    /\ entry = NoEntry
    /\ NoCollection
    /\ NoTools
    /\ NoJmap
    /\ NoBlocking
    /\ uid_store = SeenStore
    /\ mailboxes \in [MailboxHashes -> UidValidities]

MailboxNext ==
    \/ CallSelectMailbox
    \/ CallExamineMailbox
    \/ CallUnselect
    \/ SelectMailbox
    \/ ExamineMailbox
    \/ Unselect_Start
    \/ Unselect_Sent
    \/ Unselect_Resp
    \/ SC_Send
    \/ SC_Reconnected
    \/ Conn_Start
    \/ Conn_Opened
    \/ Conn_UpgradeSent
    \/ Conn_UpgradeResp
    \/ RR_Start
    \/ RR_Resp
    \/ NC_Start
    \/ NC_InitImap
    \/ NC_CapResp
    \/ NC_LoginResp
    \/ NC_PostResp
    \/ RL_Read
    \/ RL_Eof
    \/ RL_Err
    \/ RL_Timeout
    \/ ServerSend
    \/ ServerClose

SpecMailbox == MailboxInit /\ [][MailboxNext]_vars

(***************************************************************************)
(* ImapBlockingConnection                                                  *)
(***************************************************************************)
\* What as_stream() returns: Some(line) or None
SomeResult == [OkResult EXCEPT !.site = "Some"]
NoneResult == [OkResult EXCEPT !.site = "None"]

\* Lines 974-981: the line returned by the pull before is drained; None is
\* returned when the connection's stream is an error
CallAsStream ==
    /\ stack = <<>>
    /\ result' = Drop(result, prev_res_length)
    /\ prev_res_length' = 0
    /\ entry' = EntryOf("as_stream", NoArgs)
    /\ FreshLocals
    /\ out' = <<>>
    /\ notices' = 0
    /\ IF ~stream.ok
       THEN stack' = <<>> /\ retval' = [NoneResult EXCEPT !.by = "as_stream"]
       ELSE stack' = <<[fn |-> "as_stream", pc |-> "loop"]>> /\ retval' = NoResult
    /\ UNCHANGED <<conf, storeVars, processed, toolVars, collVars, jmapVars, err, pulled, transportVars, streamVars, now, stream, held,
                   is_online, sync_policy, capabilities, new_caps, required, opened>>

\* Lines 1008-1017, Ok(b): the bytes read are appended to `result`; with a
\* CRLF in `result` the bytes up to the first one are returned, otherwise
\* the loop reads again
Blk_Read ==
    /\ At("as_stream", "loop")
    /\ \E n \in ReadSizes(wire) :
         LET result1 == result \o Take(wire, n)
             pos == Find(result1, CRLF)
         IN  /\ wire' = Drop(wire, n)
             /\ result' = result1
             /\ IF pos # -1
                THEN /\ prev_res_length' = pos + Len(CRLF)
                     /\ pulled' = Append(pulled, Take(result1, pos + Len(CRLF)))
                     /\ Return(SomeResult)
                ELSE UNCHANGED <<prev_res_length, pulled, stack, retval>>
    /\ UNCHANGED <<conf, entry, storeVars, processed, toolVars, collVars, jmapVars, err, eof, srv, tls_on, sent_log, framerVars, streamVars,
                   establishVars, connVars>>

\* Lines 1009-1011 and 987-989, Ok(0): break_flag is set and None returned
Blk_Eof ==
    /\ At("as_stream", "loop")
    /\ wire = <<>>
    /\ eof
    /\ Return([NoneResult EXCEPT !.kind = "eof"])
    /\ UNCHANGED <<conf, entry, storeVars, processed, toolVars, collVars, jmapVars, blockingVars, transportVars, framerVars, streamVars,
                   establishVars, connVars>>

\* Lines 1020-1024 and 987-989, Err(_): the error is kept with kind
\* Network, break_flag is set and None returned
Blk_Err ==
    /\ At("as_stream", "loop")
    /\ err' = "Network"
    /\ Return([NoneResult EXCEPT !.kind = "Network"])
    /\ UNCHANGED <<conf, entry, storeVars, processed, toolVars, collVars, jmapVars, result, prev_res_length, pulled, transportVars,
                   framerVars, streamVars, establishVars, connVars>>

\* A connection in IDLE, its stream Ok or an error, wrapped in the adapter:
\* the server sends untagged lines until it ends the IDLE
BlockingInit ==
    /\ conf \in {c \in Confs : c.server_hostname = "rfc3501" /\ ~c.use_tls /\ IsImapConf(c)
                                /\ ~c.oauth2 /\ c.condstore /\ ~c.keep_offline_cache
                                /\ c.timeout}
    /\ wire = <<>>
    /\ eof = FALSE
    /\ srv = [cmd |-> "IDLE", tag |-> 3, left |-> MaxLines, out |-> <<>>]
    /\ tls_on = FALSE
    /\ sent_log = <<[tag |-> 1, cmd |-> "CAPABILITY", tls |-> FALSE, full |-> TRUE],
                    [tag |-> 2, cmd |-> "LOGIN", tls |-> FALSE, full |-> TRUE],
                    [tag |-> 3, cmd |-> "IDLE", tls |-> FALSE, full |-> TRUE]>>
    /\ cmd_id = 4
    /\ current_mailbox = "None"
    /\ NoLocals
    /\ stack = <<>>
    /\ retval = NoResult
    /\ now = 0
    /\ stream \in {StreamOk, StreamErr("Network")}
    /\ held = NoHeld
    /\ is_online = Online(0)
    /\ sync_policy = "None"
    /\ capabilities = {C_IMAP4REV1}
    /\ new_caps = capabilities
    /\ required = "empty"
    /\ out = <<>>
    /\ notices = 0
    /\ processed = <<>>
    /\ opened = 1
    /\ entry = NoEntry
    /\ NoCollection
    /\ NoTools
    /\ NoJmap
    /\ NoBlocking
    /\ uid_store = EmptyStore
    /\ mailboxes = [h \in MailboxHashes |-> 42]

BlockingNext ==
    \/ CallAsStream
    \/ Blk_Read
    \/ Blk_Eof
    \/ Blk_Err
    \/ ServerSend
    \/ ServerClose

SpecBlocking == BlockingInit /\ [][BlockingNext]_vars

(***************************************************************************)
(* JMAP: get_request_no!, Request::add_call, get_mailboxes,               *)
(* get_message_list, fetch                                                 *)
(***************************************************************************)
imapVars == <<conf, transportVars, framerVars, streamVars, establishVars, stack, retval,
              connVars, entry, blockingVars, storeVars, processed>>

\* The request counter is not taken past this value
MaxRequestNo == 3

\* Email state strings of the server
EmailStates == {"S1", "S2"}

\* What comes back for a request: the transport fails; a list of method
\* responses; a list whose response is a JMAP error object; a body that is
\* no list of method responses (the body of an HTTP error, a problem
\* report); an empty list of method responses
ReplyKinds == {"network", "responses", "method_error", "http_error_body", "empty_list"}

JmapOps == {"fetch", "get_message_list", "get_mailboxes"}

\* The method calls an operation places in its request, in order
MethodNames(op) ==
    CASE op = "fetch" -> <<"Email/query", "Email/get">>
      [] op = "get_message_list" -> <<"Email/query">>
      [] op = "get_mailboxes" -> <<"Mailbox/get">>

\* format!("m{}", seq) of add_call, format!("#m{}", seq) of get_mailboxes
CallId(op, seq) ==
    IF op = "get_mailboxes" THEN <<"#", "m">> \o Decimal(seq) ELSE <<"m">> \o Decimal(seq)

\* An operation starts on a caller that runs none
JCall(c) ==
    /\ jc[c].pc \in {"idle", "done"}
    /\ request_no < MaxRequestNo
    /\ \E op \in JmapOps :
         jc' = [jc EXCEPT ![c] = [NoCall EXCEPT !.op = op, !.pc = "lock",
                                                !.pending = MethodNames(op),
                                                !.stored_at_call = email_state]]
    /\ UNCHANGED <<imapVars, toolVars, collVars, request_no, request_no_lock, email_state, drawn>>

\* A Mutex that excludes nobody
CanLock_NoExclusion(c) == TRUE

\* `$lock.lock().unwrap()`: the Mutex is free
CanLock(c) == request_no_lock = "free"

\* get_request_no!: `let mut lck = $lock.lock().unwrap();`
JLock(c) ==
    /\ jc[c].pc = "lock"
    /\ CanLock(c)
    /\ request_no_lock' = c
    /\ jc' = [jc EXCEPT ![c].pc = "read"]
    /\ UNCHANGED <<imapVars, toolVars, collVars, request_no, email_state, drawn>>

\* `let ret = *lck;`
JRead(c) ==
    /\ jc[c].pc = "read"
    /\ jc' = [jc EXCEPT ![c].pc = "incr", ![c].lck_ret = request_no]
    /\ UNCHANGED <<imapVars, toolVars, collVars, request_no, request_no_lock, email_state, drawn>>

\* `*lck += 1;`
JIncr(c) ==
    /\ jc[c].pc = "incr"
    /\ request_no' = request_no + 1
    /\ jc' = [jc EXCEPT ![c].pc = "unlock"]
    /\ UNCHANGED <<imapVars, toolVars, collVars, request_no_lock, email_state, drawn>>

\* JmapArgument::reference(result_of, path): a result reference to the path
\* of the result of the call with the id m{result_of}
ArgReference(result_of, path) ==
    [result_of |-> <<"m">> \o Decimal(result_of), path |-> path]

\* An argument that is no reference
NoArgument == [result_of |-> <<>>, path |-> ""]

\* `ids` as a reference to the call numbered just below the call's own
EmailGetIds_Preceding(c) == ArgReference(jc[c].lck_ret - 1, "/ids")

\* fetch, lines 233-240: `.ids(Some(JmapArgument::reference(prev_seq,
\* EmailQuery::RESULT_FIELD_IDS)))`
EmailGetIds(c) == ArgReference(jc[c].prev_seq, "/ids")

\* The `ids` argument of the method call caller c is placing
IdsOf(c) ==
    IF jc[c].op = "fetch" /\ Head(jc[c].pending) = "Email/get"
    THEN EmailGetIds(c) ELSE NoArgument

\* `ret` leaves the block and the guard is dropped; the method call is
\* placed in the request with its call id.  fetch keeps what its first
\* add_call returned: `let prev_seq = req.add_call(&email_query_call);`
JUnlock(c) ==
    /\ jc[c].pc = "unlock"
    /\ request_no_lock' = IF request_no_lock = c THEN "free" ELSE request_no_lock
    /\ drawn' = Append(drawn, jc[c].lck_ret)
    /\ jc' = [jc EXCEPT ![c].calls = Append(@, [name |-> Head(jc[c].pending),
                                                 seq |-> jc[c].lck_ret,
                                                 id |-> CallId(jc[c].op, jc[c].lck_ret),
                                                 ids |-> IdsOf(c)]),
                        ![c].prev_seq = IF jc[c].op = "fetch" /\ jc[c].calls = <<>>
                                        THEN jc[c].lck_ret ELSE @,
                        ![c].pending = Tail(@),
                        ![c].pc = IF Tail(jc[c].pending) = <<>> THEN "post" ELSE "lock"]
    /\ UNCHANGED <<imapVars, toolVars, collVars, request_no, email_state>>

\* `conn.client.post_async(..).await?` and `res.text_async().await?`
JPost(c) ==
    /\ jc[c].pc = "post"
    /\ \E k \in ReplyKinds, st \in EmailStates :
         jc' = [jc EXCEPT ![c].reply = k,
                          ![c].state = IF k = "responses" THEN st ELSE "",
                          ![c].pc = IF k = "network" THEN "done" ELSE "parse",
                          ![c].outcome = IF k = "network" THEN "Err" ELSE "none"]
    /\ UNCHANGED <<imapVars, toolVars, collVars, request_no, request_no_lock, email_state, drawn>>

\* `serde_json::from_str(&res_text).unwrap()`, then the last (fetch) or the
\* first method response is taken out and converted with `try_from(..)?`
JParse(c) ==
    /\ jc[c].pc = "parse"
    /\ jc' = [jc EXCEPT ![c].pc = IF jc[c].reply = "responses" /\ jc[c].op = "fetch"
                                   THEN "compare" ELSE "done",
                        ![c].outcome =
                            CASE jc[c].reply \in {"http_error_body", "empty_list"} -> "panic"
                              [] jc[c].reply = "method_error" -> "Err"
                              [] jc[c].op = "fetch" -> "none"
                              [] OTHER -> "Ok"]
    /\ UNCHANGED <<imapVars, toolVars, collVars, request_no, request_no_lock, email_state, drawn>>

\* fetch, lines 254-257: `(current_state_lck.is_empty(), *current_state_lck
\* != state)`, named (is_empty, is_equal); then `if is_empty { .. } else if
\* !is_equal { .. }`
JCompare(c) ==
    /\ jc[c].pc = "compare"
    /\ LET is_empty == email_state = ""
           is_equal == email_state # jc[c].state
       IN  jc' = [jc EXCEPT ![c].seen = email_state,
                            ![c].pc = IF is_empty THEN "store"
                                      ELSE IF ~is_equal THEN "changes" ELSE "done",
                            ![c].outcome = IF is_empty \/ ~is_equal THEN "none" ELSE "Ok"]
    /\ UNCHANGED <<imapVars, toolVars, collVars, request_no, request_no_lock, email_state, drawn>>

\* `*conn.store.email_state.lock().unwrap() = state;`
JStore(c) ==
    /\ jc[c].pc = "store"
    /\ email_state' = jc[c].state
    /\ jc' = [jc EXCEPT ![c].pc = "done", ![c].outcome = "Ok"]
    /\ UNCHANGED <<imapVars, toolVars, collVars, request_no, request_no_lock, drawn>>

\* `conn.email_changes().await?`: the changes are applied and the state
\* token advanced to the server's, or an error is returned
JChanges(c) ==
    /\ jc[c].pc = "changes"
    /\ \/ /\ \E st \in EmailStates : email_state' = st
          /\ jc' = [jc EXCEPT ![c].pc = "done", ![c].changes = TRUE, ![c].outcome = "Ok"]
       \/ /\ UNCHANGED email_state
          /\ jc' = [jc EXCEPT ![c].pc = "done", ![c].changes = TRUE, ![c].outcome = "Err"]
    /\ UNCHANGED <<imapVars, toolVars, collVars, request_no, request_no_lock, drawn>>

\* A JmapConnection shared by the callers; the Email state stored is empty
\* or one of the server's
JmapInit ==
    /\ conf \in {c \in Confs : c.server_hostname = "rfc3501" /\ ~c.use_tls /\ IsImapConf(c)
                                /\ ~c.oauth2 /\ c.condstore /\ ~c.keep_offline_cache
                                /\ c.timeout}
    /\ NoStream
    /\ NoLocals
    /\ stack = <<>>
    /\ retval = NoResult
    /\ now = 0
    /\ stream = StreamErr("None")
    /\ held = NoHeld
    /\ is_online = [time |-> 0, ok |-> FALSE, kind |-> "None"]
    /\ sync_policy = "None"
    /\ capabilities = {}
    /\ new_caps = {}
    /\ required = "empty"
    /\ out = <<>>
    /\ notices = 0
    /\ processed = <<>>
    /\ opened = 0
    /\ entry = NoEntry
    /\ NoCollection
    /\ NoTools
    /\ NoBlocking
    /\ uid_store = EmptyStore
    /\ mailboxes = [h \in MailboxHashes |-> 42]
    /\ request_no = 0
    /\ request_no_lock = "free"
    /\ email_state \in {""} \cup EmailStates
    /\ jc = [c \in Callers |-> NoCall]
    /\ drawn = <<>>

JmapNext ==
    \/ \E c \in Callers : JCall(c)
    \/ \E c \in Callers : JLock(c)
    \/ \E c \in Callers : JRead(c)
    \/ \E c \in Callers : JIncr(c)
    \/ \E c \in Callers : JUnlock(c)
    \/ \E c \in Callers : JPost(c)
    \/ \E c \in Callers : JParse(c)
    \/ \E c \in Callers : JCompare(c)
    \/ \E c \in Callers : JStore(c)
    \/ \E c \in Callers : JChanges(c)

SpecJmap == JmapInit /\ [][JmapNext]_vars

(***************************************************************************)
(* ThreadListing::set_movement and ThreadListing::draw_list                *)
(***************************************************************************)
\* Envelopes in a listing
MaxLength == 4
\* Rows of the area a listing is drawn in
MaxRows == 3
\* The amount or multiplier of a movement; far below usize::MAX, so that no
\* sum or product overflows
MaxAmount == 3

\* usize::saturating_sub
SaturatingSub(a, b) == IF a > b THEN a - b ELSE 0

\* PageMovement
PageMovements ==
    [kind : {"Up", "Down", "PageUp", "PageDown"}, n : 0..MaxAmount]
    \cup [kind : {"Home", "End", "Left", "Right"}, n : {0}]

\* draw_list, lines 278-286: PageMovement::PageDown(multiplier)
PageDown(pos, multiplier, rows, length) ==
    IF pos + rows * multiplier + 1 < length
    THEN pos + rows * multiplier
    ELSE IF pos + rows * multiplier > length
    THEN length - 1
    ELSE (length \div rows) * rows

\* draw_list, lines 263-294: `match mvm`, the new value of new_cursor_pos.2
ApplyMovement(pos, mvm, rows, length) ==
    CASE mvm.kind = "Up" -> SaturatingSub(pos, mvm.n)
      [] mvm.kind = "PageUp" -> SaturatingSub(pos, rows * mvm.n)
      [] mvm.kind = "Down" -> IF pos + mvm.n + 1 < length THEN pos + mvm.n ELSE length - 1
      [] mvm.kind = "PageDown" -> PageDown(pos, mvm.n, rows, length)
      [] mvm.kind \in {"Left", "Right"} -> pos
      [] mvm.kind = "Home" -> 0
      [] mvm.kind = "End" -> length - 1

\* set_movement: `self.movement = Some(mvm);`
TL_SetMovement(mvm) ==
    /\ listing' = [listing EXCEPT !.movement = [some |-> TRUE, mvm |-> mvm],
                                  !.drawn = [some |-> FALSE]]
    /\ UNCHANGED <<imapVars, jmapVars, collVars, draftVars, queryVars, segVars, rateVars>>

\* draw_list on the mailbox the cursor is in, in an area of `rows` rows: it
\* returns early on an empty listing and on an area of no rows, else it
\* takes the movement and applies it
TL_DrawList(rows) ==
    /\ listing' =
         IF listing.length = 0 \/ rows = 0 THEN [listing EXCEPT !.drawn = [some |-> FALSE]]
         ELSE IF ~listing.movement.some
         THEN [listing EXCEPT !.drawn = [some |-> TRUE, moved |-> FALSE, rows |-> rows]]
         ELSE [listing EXCEPT
                  !.new_cursor_pos = ApplyMovement(listing.new_cursor_pos,
                                                   listing.movement.mvm, rows,
                                                   listing.length),
                  !.movement = [some |-> FALSE],
                  !.drawn = [some |-> TRUE, moved |-> TRUE, rows |-> rows,
                             mvm |-> listing.movement.mvm,
                             from |-> listing.new_cursor_pos]]
    /\ UNCHANGED <<imapVars, jmapVars, collVars, draftVars, queryVars, segVars, rateVars>>

\* A listing of a mailbox that has been refreshed: the cursor is on one of
\* its rows, or on row 0 when it is empty
ListingInit ==
    /\ conf \in {c \in Confs : c.server_hostname = "rfc3501" /\ ~c.use_tls /\ IsImapConf(c)
                                /\ ~c.oauth2 /\ c.condstore /\ ~c.keep_offline_cache
                                /\ c.timeout}
    /\ NoStream
    /\ NoLocals
    /\ stack = <<>>
    /\ retval = NoResult
    /\ now = 0
    /\ stream = StreamErr("None")
    /\ held = NoHeld
    /\ is_online = [time |-> 0, ok |-> FALSE, kind |-> "None"]
    /\ sync_policy = "None"
    /\ capabilities = {}
    /\ new_caps = {}
    /\ required = "empty"
    /\ out = <<>>
    /\ notices = 0
    /\ processed = <<>>
    /\ opened = 0
    /\ entry = NoEntry
    /\ NoBlocking
    /\ NoJmap
    /\ NoCollection
    /\ NoDraft
    /\ NoQuery
    /\ NoSegmentTree
    /\ NoRateLimit
    /\ uid_store = EmptyStore
    /\ mailboxes = [h \in MailboxHashes |-> 42]
    /\ \E length \in 0..MaxLength, pos \in 0..MaxLength :
         /\ pos < length \/ pos = 0
         /\ listing = [length |-> length, new_cursor_pos |-> pos,
                       movement |-> [some |-> FALSE], drawn |-> [some |-> FALSE]]

ListingNext ==
    \/ \E mvm \in PageMovements : TL_SetMovement(mvm)
    \/ \E rows \in 0..MaxRows : TL_DrawList(rows)

SpecListing == ListingInit /\ [][ListingNext]_vars

(***************************************************************************)
(* Collection                                                              *)
(***************************************************************************)
\* EnvelopeHash values
EnvelopeHashes == {"e1", "e2", "e3", "e4"}

\* The envelope a message is a reply to, "none" for the first of a thread
InReplyTo(e) ==
    CASE e = "e1" -> "none"
      [] e = "e2" -> "e1"
      [] e = "e3" -> "e1"
      [] e = "e4" -> "e2"

\* The envelope hashes the thread nodes refer to
NodeHashes(nodes) == {n.message : n \in nodes}

\* The parent a node for e gets among `nodes`
ParentIn(e, nodes) == IF InReplyTo(e) \in NodeHashes(nodes) THEN InReplyTo(e) ELSE "none"

\* Threads::insert: a node for the envelope, under its parent if that has a
\* node, and the nodes of its replies moved under it
ThreadsInsert(e, nodes) ==
    LET kept == {n \in nodes : n.message # e}
        moved == {[message |-> n.message,
                   parent |-> IF InReplyTo(n.message) = e THEN e ELSE n.parent] : n \in kept}
    IN  moved \cup {[message |-> e, parent |-> ParentIn(e, kept)]}

\* Threads::insert_reply: a node for the envelope under its parent, the
\* other nodes left as they are
ThreadsInsertReply(e, nodes) ==
    {n \in nodes : n.message # e} \cup {[message |-> e, parent |-> ParentIn(e, nodes)]}

\* Threads::new: every envelope gets a node, under the envelope it replies
\* to when that one is in the set (steps 1-3 of the threading; the envelopes
\* of the model have pairwise different subjects, so step 4 groups nothing)
ThreadsNew(set) ==
    {[message |-> e, parent |-> IF InReplyTo(e) \in set THEN InReplyTo(e) ELSE "none"] : e \in set}

\* The nodes after Threads::insert of every envelope of `set`, one by one
RECURSIVE InsertAll(_, _)
InsertAll(set, nodes) ==
    IF set = {} THEN nodes
    ELSE LET e == CHOOSE x \in set : TRUE
         IN  InsertAll(set \ {e}, ThreadsInsert(e, nodes))

\* Threads::update: the nodes whose envelope vanished are dropped (their
\* replies become roots), the envelopes without a node are inserted
ThreadsUpdate(nodes, set) ==
    LET live == {n \in nodes : n.message \in set}
        kept == {[message |-> n.message,
                  parent |-> IF n.parent \in set THEN n.parent ELSE "none"] : n \in live}
    IN  InsertAll(set \ NodeHashes(kept), kept)

\* The results of the file system calls of one Collection::new: whether
\* find_cache_file finds the file, bincode reads it, place_cache_file gives
\* a path and File::create opens it; only a file that was found is read and
\* only a path that was given is created
FsOutcomes ==
    {f \in [found : BOOLEAN, deserializes : BOOLEAN, place : BOOLEAN, create : BOOLEAN] :
        (f.deserializes => f.found) /\ (f.create => f.place)}

\* The Collection is there: Collection::new did not panic
Alive == made.path # "panicked"

\* What `made` records of a Collection::new that took the branch `path`
MadeBy(path, vec, fs) ==
    [path |-> path, fresh |-> TRUE, order |-> <<>>, inserts_only |-> vec = {}, fs |-> fs]

\* Collection::new that takes the cached threads as they are
Coll_New_TrustsCache(vec, fs) ==
    /\ (fs.found /\ fs.deserializes) => cache.written
    /\ IF fs.found /\ fs.deserializes
       THEN \* Lines 39-41
            /\ envelopes' = vec
            /\ thread_nodes' = cache.threads
            /\ made' = MadeBy("cached", vec, fs)
            /\ UNCHANGED cache
       ELSE IF ~fs.place
       THEN \* Lines 43-44 and 58-59: no path for the file, nothing written
            /\ envelopes' = vec
            /\ thread_nodes' = ThreadsNew(vec)
            /\ made' = MadeBy("rebuilt", vec, fs)
            /\ UNCHANGED cache
       ELSE IF ~fs.create
       THEN \* Lines 46-50 and 61-65: panic, no Collection is returned
            /\ envelopes' = {}
            /\ thread_nodes' = {}
            /\ made' = MadeBy("panicked", {}, fs)
            /\ UNCHANGED cache
       ELSE \* Lines 52-55 and 67-70
            /\ envelopes' = vec
            /\ thread_nodes' = ThreadsNew(vec)
            /\ cache' = [written |-> TRUE, threads |-> ThreadsNew(vec)]
            /\ made' = MadeBy("rebuilt", vec, fs)
    /\ UNCHANGED <<imapVars, toolVars, jmapVars>>

\* Collection::new, lines 24-78. A file that deserializes is one an earlier
\* Collection::new of the folder wrote
Coll_New(vec, fs) ==
    /\ (fs.found /\ fs.deserializes) => cache.written
    /\ IF fs.found /\ fs.deserializes
       THEN \* Lines 39-41
            /\ envelopes' = vec
            /\ thread_nodes' = ThreadsUpdate(cache.threads, vec)
            /\ made' = MadeBy("cached", vec, fs)
            /\ UNCHANGED cache
       ELSE IF ~fs.place
       THEN \* Lines 43-44 and 58-59: no path for the file, nothing written
            /\ envelopes' = vec
            /\ thread_nodes' = ThreadsNew(vec)
            /\ made' = MadeBy("rebuilt", vec, fs)
            /\ UNCHANGED cache
       ELSE IF ~fs.create
       THEN \* Lines 46-50 and 61-65: panic, no Collection is returned
            /\ envelopes' = {}
            /\ thread_nodes' = {}
            /\ made' = MadeBy("panicked", {}, fs)
            /\ UNCHANGED cache
       ELSE \* Lines 52-55 and 67-70
            /\ envelopes' = vec
            /\ thread_nodes' = ThreadsNew(vec)
            /\ cache' = [written |-> TRUE, threads |-> ThreadsNew(vec)]
            /\ made' = MadeBy("rebuilt", vec, fs)
    /\ UNCHANGED <<imapVars, toolVars, jmapVars>>

\* Collection::insert with the body of insert_reply
Coll_Insert_AsReply(e) ==
    /\ Alive
    /\ thread_nodes' = ThreadsInsertReply(e, thread_nodes)
    /\ envelopes' = envelopes \cup {e}
    /\ made' = [made EXCEPT !.order = IF made.inserts_only /\ e \notin envelopes
                                       THEN Append(@, e) ELSE <<>>,
                             !.inserts_only = @ /\ e \notin envelopes,
                             !.fresh = FALSE]
    /\ UNCHANGED <<imapVars, toolVars, jmapVars, cache>>

\* Collection::insert, lines 88-92
Coll_Insert(e) ==
    /\ Alive
    /\ thread_nodes' = ThreadsInsert(e, thread_nodes)
    /\ envelopes' = envelopes \cup {e}
    /\ made' = [made EXCEPT !.order = IF made.inserts_only /\ e \notin envelopes
                                       THEN Append(@, e) ELSE <<>>,
                             !.inserts_only = @ /\ e \notin envelopes,
                             !.fresh = FALSE]
    /\ UNCHANGED <<imapVars, toolVars, jmapVars, cache>>

\* Collection::insert_reply, lines 93-95
Coll_InsertReply(e) ==
    /\ Alive
    /\ InReplyTo(e) # "none"
    /\ thread_nodes' = ThreadsInsertReply(e, thread_nodes)
    /\ envelopes' = envelopes \cup {e}
    /\ made' = [made EXCEPT !.order = <<>>, !.inserts_only = FALSE, !.fresh = FALSE]
    /\ UNCHANGED <<imapVars, toolVars, jmapVars, cache>>

\* `collection.remove(&hash)`: deref_mut (lines 106-110) hands out the
\* envelope map and HashMap::remove takes the key out of it
Coll_Remove(e) ==
    /\ Alive
    /\ e \in envelopes
    /\ envelopes' = envelopes \ {e}
    /\ made' = [made EXCEPT !.order = <<>>, !.inserts_only = FALSE, !.fresh = FALSE]
    /\ UNCHANGED <<imapVars, toolVars, jmapVars, thread_nodes, cache>>

\* The default Collection and no cache file, nothing else running
CollectionInit ==
    /\ conf \in {c \in Confs : c.server_hostname = "rfc3501" /\ ~c.use_tls /\ IsImapConf(c)
                                /\ ~c.oauth2 /\ c.condstore /\ ~c.keep_offline_cache
                                /\ c.timeout}
    /\ NoStream
    /\ NoLocals
    /\ stack = <<>>
    /\ retval = NoResult
    /\ now = 0
    /\ stream = StreamErr("None")
    /\ held = NoHeld
    /\ is_online = [time |-> 0, ok |-> FALSE, kind |-> "None"]
    /\ sync_policy = "None"
    /\ capabilities = {}
    /\ new_caps = {}
    /\ required = "empty"
    /\ out = <<>>
    /\ notices = 0
    /\ processed = <<>>
    /\ opened = 0
    /\ entry = NoEntry
    /\ NoBlocking
    /\ NoJmap
    /\ NoCollection
    /\ NoTools
    /\ uid_store = EmptyStore
    /\ mailboxes = [h \in MailboxHashes |-> 42]

CollectionNext ==
    \/ \E e \in EnvelopeHashes : Coll_Insert(e)
    \/ \E e \in EnvelopeHashes : Coll_InsertReply(e)
    \/ \E e \in EnvelopeHashes : Coll_Remove(e)
    \/ \E vec \in SUBSET EnvelopeHashes, fs \in FsOutcomes : Coll_New(vec, fs)

SpecCollection == CollectionInit /\ [][CollectionNext]_vars

(***************************************************************************)
(* Draft (melib/src/mailbox/email/compose.rs).  A String is a sequence of  *)
(* characters, a character a one-element string or ALPHA; `as_bytes`      *)
(* and `String::from_utf8` turn it into UTF-8 bytes and back.              *)
(***************************************************************************)
\* The longest body a Draft is given
MaxBody == 3

\* A character outside ASCII (U+03B1) and the two bytes of its UTF-8 encoding
ALPHA == "U+03B1"
Utf8Lead == "xCE"
Utf8Cont == "xB1"

\* str::as_bytes
RECURSIVE AsBytes(_)
AsBytes(s) ==
    IF s = <<>> THEN <<>>
    ELSE (IF Head(s) = ALPHA THEN <<Utf8Lead, Utf8Cont>> ELSE <<Head(s)>>) \o AsBytes(Tail(s))

\* String::from_utf8: Err on a lead byte without its continuation and on a
\* continuation byte without its lead
RECURSIVE FromUtf8(_)
FromUtf8(b) ==
    IF b = <<>> THEN [ok |-> TRUE, s |-> <<>>]
    ELSE IF Head(b) = Utf8Lead
    THEN IF Len(b) >= 2 /\ b[2] = Utf8Cont
         THEN LET r == FromUtf8(Tail(Tail(b)))
              IN  [ok |-> r.ok, s |-> <<ALPHA>> \o r.s]
         ELSE [ok |-> FALSE, s |-> <<>>]
    ELSE IF Head(b) = Utf8Cont THEN [ok |-> FALSE, s |-> <<>>]
    ELSE LET r == FromUtf8(Tail(b))
         IN  [ok |-> r.ok, s |-> <<Head(b)>> \o r.s]

\* The header names of Draft::default in header_order, lines 41-48
DefaultHeaderOrder ==
    << <<"D", "a", "t", "e">>, <<"F", "r", "o", "m">>, <<"T", "o">>, <<"C", "c">>,
       <<"B", "c", "c">>, <<"S", "u", "b", "j", "e", "c", "t">>,
       <<"M", "e", "s", "s", "a", "g", "e", "-", "I", "D">>,
       <<"U", "s", "e", "r", "-", "A", "g", "e", "n", "t">> >>

H_Date == DefaultHeaderOrder[1]
H_MessageID == DefaultHeaderOrder[7]
H_UserAgent == DefaultHeaderOrder[8]

\* What Local::now().to_rfc2822() may return
Dates == { <<"1", ":", "0">>, <<"2", ":", "0">> }

\* What random::gen_message_id() may return
MessageIds == { <<"<", "p", ">">>, <<"<", "q", ">">> }

\* The characters of the bodies
BodyChars == {"a", ALPHA, LF, ":"}

RECURSIVE StringsUpTo(_, _)
\* The strings over `chars` of at most n characters
StringsUpTo(chars, n) ==
    IF n = 0 THEN {<<>>}
    ELSE LET shorter == StringsUpTo(chars, n - 1)
         IN  shorter \cup {<<c>> \o s : c \in chars, s \in {t \in shorter : Len(t) = n - 1}}

Bodies == StringsUpTo(BodyChars, MaxBody)

\* Draft::default, lines 27-56
DraftDefault(date, id) ==
    [some |-> TRUE,
     headers |-> [k \in {DefaultHeaderOrder[i] : i \in 1..8} |->
                     CASE k = H_Date -> date
                       [] k = H_MessageID -> id
                       [] k = H_UserAgent -> <<"m", "e", "l", "i">>
                       [] OTHER -> <<>>],
     header_order |-> DefaultHeaderOrder,
     body |-> <<>>,
     attachments |-> <<>>]

RECURSIVE HeaderLines(_, _)
\* The loop of lines 157-160: format!("{}: {}\n", k, v) for every k of `order`
HeaderLines(order, headers) ==
    IF order = <<>> THEN <<>>
    ELSE Head(order) \o <<":", SP>> \o headers[Head(order)] \o <<LF>>
           \o HeaderLines(Tail(order), headers)

\* Draft::to_string, lines 154-166
DraftToString(d) == HeaderLines(d.header_order, d.headers) \o <<LF>> \o d.body

\* The header names ignore_header keeps besides those that start with "X-"
KeptHeaders ==
    {DefaultHeaderOrder[i] : i \in 1..8} \cup
    { <<"R", "e", "p", "l", "y", "-", "t", "o">>,
      <<"I", "n", "-", "R", "e", "p", "l", "y", "-", "T", "o">>,
      <<"R", "e", "f", "e", "r", "e", "n", "c", "e", "s">> }

\* ignore_header with `b"Message-Id"` for `b"Message-ID"`
ignore_header_MessageIdCase(header) ==
    ~(header \in (KeptHeaders \ {H_MessageID}) \/ StartsWith(header, <<"X", "-">>))

\* ignore_header, lines 199-216
ignore_header(header) == ~(header \in KeptHeaders \/ StartsWith(header, <<"X", "-">>))

RECURSIVE ParseMail(_, _)
\* parser::mail and Envelope::body_bytes on the bytes b from offset i: the
\* header lines `name: value` up to the first empty line, and the bytes
\* after that line as the body
ParseMail(b, i) ==
    IF i >= Len(b) THEN [ok |-> FALSE, headers |-> <<>>, body |-> <<>>]
    ELSE IF b[i + 1] = LF THEN [ok |-> TRUE, headers |-> <<>>, body |-> From(b, i + 1)]
    ELSE LET line_end == Find(From(b, i), <<LF>>)
             colon == Find(From(b, i), <<":">>)
         IN  IF line_end = -1 \/ colon = -1 \/ colon > line_end \/ colon = 0
             THEN [ok |-> FALSE, headers |-> <<>>, body |-> <<>>]
             ELSE LET name == Slice(b, i, i + colon)
                      after == i + colon + 1
                      val_at == IF after < i + line_end /\ b[after + 1] = SP
                                THEN after + 1 ELSE after
                      value == Slice(b, val_at, i + line_end)
                      rest == ParseMail(b, i + line_end + 1)
                  IN  [ok |-> rest.ok,
                       headers |-> << <<name, value>> >> \o rest.headers,
                       body |-> rest.body]

RECURSIVE InsertHeaders(_, _)
\* The loop of lines 68-80 on the Draft `d`
InsertHeaders(d, hs) ==
    IF hs = <<>> THEN d
    ELSE LET k == Head(hs)[1]
             v == Head(hs)[2]
         IN  IF ignore_header(k) THEN InsertHeaders(d, Tail(hs))
             ELSE InsertHeaders(
                    [d EXCEPT !.headers = (k :> v) @@ d.headers,
                              !.header_order = IF k \in DOMAIN d.headers
                                               THEN @ ELSE Append(@, k)],
                    Tail(hs))

\* Draft::from_str, lines 59-90, with the Draft::default() of line 66 given
DraftFromStr(s, default) ==
    IF s = <<>> THEN [some |-> TRUE, ok |-> FALSE]
    ELSE LET mail == ParseMail(AsBytes(s), 0)
             keys_ok == \A i \in 1..Len(mail.headers) :
                           FromUtf8(mail.headers[i][1]).ok /\ FromUtf8(mail.headers[i][2]).ok
             body == FromUtf8(mail.body)
         IN  IF ~mail.ok \/ ~keys_ok \/ ~body.ok THEN [some |-> TRUE, ok |-> FALSE]
             ELSE [some |-> TRUE, ok |-> TRUE,
                   value |-> [InsertHeaders(default,
                                  [i \in 1..Len(mail.headers) |->
                                      <<FromUtf8(mail.headers[i][1]).s,
                                        FromUtf8(mail.headers[i][2]).s>>])
                              EXCEPT !.body = body.s]]

\* let d = Draft::default()
Draft_Default(date, id) ==
    /\ draft' = DraftDefault(date, id)
    /\ draft_text' = [some |-> FALSE]
    /\ draft_back' = [some |-> FALSE]
    /\ UNCHANGED <<imapVars, jmapVars, listing, rateVars, collVars, segVars, queryVars>>

\* Draft::set_body, lines 150-152
Draft_SetBody(s) ==
    /\ draft.some
    /\ draft' = [draft EXCEPT !.body = s]
    /\ draft_text' = [some |-> FALSE]
    /\ draft_back' = [some |-> FALSE]
    /\ UNCHANGED <<imapVars, jmapVars, listing, rateVars, collVars, segVars, queryVars>>

\* let s = d.to_string().unwrap()
Draft_ToString ==
    /\ draft.some
    /\ draft_text' = [some |-> TRUE, s |-> DraftToString(draft)]
    /\ draft_back' = [some |-> FALSE]
    /\ UNCHANGED <<imapVars, jmapVars, listing, rateVars, collVars, segVars, queryVars, draft>>

\* Draft::from_str(&s), at a time and with a random id of its own
Draft_FromStr(date, id) ==
    /\ draft_text.some
    /\ draft_back' = DraftFromStr(draft_text.s, DraftDefault(date, id))
                        @@ [default_date |-> date, default_id |-> id]
    /\ UNCHANGED <<imapVars, jmapVars, listing, rateVars, collVars, segVars, queryVars, draft, draft_text>>

\* No Draft yet, nothing else running
DraftInit == CollectionInit

DraftNext ==
    \/ \E date \in Dates, id \in MessageIds : Draft_Default(date, id)
    \/ \E s \in Bodies : Draft_SetBody(s)
    \/ Draft_ToString
    \/ \E date \in Dates, id \in MessageIds : Draft_FromStr(date, id)

SpecDraft == DraftInit /\ [][DraftNext]_vars

(***************************************************************************)
(* The query language (ui/src/cache.rs, query_parser).  A parser takes the *)
(* input and an offset and gives [ok, rest, v]: whether it matched, the    *)
(* offset of what is left and the value.                                   *)
(***************************************************************************)
\* The most words a search string is made of
MaxTokens == 5

\* The words of the search strings and their characters
Tokens == {"x", "subject:y", "and", "or", "OR", "not", "(", ")"}

TokenChars(t) ==
    CASE t = "x" -> <<"x">>
      [] t = "subject:y" -> <<"s", "u", "b", "j", "e", "c", "t", ":", "y">>
      [] t = "and" -> <<"a", "n", "d">>
      [] t = "or" -> <<"o", "r">>
      [] t = "OR" -> <<"O", "R">>
      [] t = "not" -> <<"n", "o", "t">>
      [] t = "(" -> <<"(">>
      [] t = ")" -> <<")">>

RECURSIVE JoinTokens(_)
\* The search string of the words, one space between two
JoinTokens(ts) ==
    IF ts = <<>> THEN <<>>
    ELSE IF Len(ts) = 1 THEN TokenChars(ts[1])
    ELSE TokenChars(ts[1]) \o <<SP>> \o JoinTokens(Tail(ts))

\* A parser that did not match
NoMatch == [ok |-> FALSE, rest |-> 0, v |-> <<>>]

Matched(rest, v) == [ok |-> TRUE, rest |-> rest, v |-> v]

\* char::is_alphanumeric on the characters of the model
IsAlphanumeric(c) ==
    \/ \E i \in 1..26 : c = LowerLetters[i] \/ c = UpperLetters[i]
    \/ \E i \in 1..10 : c = Digits[i]

RECURSIVE space0(_, _)
\* parsec::space0: the offset after the white space at i
space0(s, i) == IF i < Len(s) /\ s[i + 1] = SP THEN space0(s, i + 1) ELSE i

\* parsec::match_literal
match_literal(lit, s, i) ==
    IF StartsWith(From(s, i), lit) THEN Matched(i + Len(lit), <<>>) ELSE NoMatch

\* parsec::match_literal_anycase
match_literal_anycase(lit, s, i) ==
    IF i + Len(lit) <= Len(s) /\ EqIgnoreAsciiCase(Slice(s, i, i + Len(lit)), lit)
    THEN Matched(i + Len(lit), <<>>)
    ELSE NoMatch

\* whitespace_wrap(p) of a parser result r that was run at space0(s, i)
whitespace_wrap(r, s) == IF r.ok THEN Matched(space0(s, r.rest), r.v) ELSE NoMatch

RECURSIVE AlnumEnd(_, _)
\* The offset after the alphanumeric characters at i
AlnumEnd(s, i) ==
    IF i < Len(s) /\ IsAlphanumeric(s[i + 1]) THEN AlnumEnd(s, i + 1) ELSE i

\* parsec::string: one or more alphanumeric characters
string(s, i) ==
    IF AlnumEnd(s, i) > i THEN Matched(AlnumEnd(s, i), Slice(s, i, AlnumEnd(s, i))) ELSE NoMatch

\* parsec::quoted_string: the characters between two double quotes
quoted_string(s, i) ==
    IF i < Len(s) /\ s[i + 1] = "\"" /\ Find(From(s, i + 1), <<"\"">>) # -1
    THEN LET close == i + 1 + Find(From(s, i + 1), <<"\"">>)
         IN  Matched(close + 1, Slice(s, i + 1, close))
    ELSE NoMatch

\* query_parser::literal, lines 194-196
literal(s, i) == IF quoted_string(s, i).ok THEN quoted_string(s, i) ELSE string(s, i)

\* The prefix(whitespace_wrap(match_literal(word)), whitespace_wrap(literal()))
\* of subject and from
Prefixed(word, s, i) ==
    LET w == whitespace_wrap(match_literal(word, s, space0(s, i)), s)
    IN  IF ~w.ok THEN NoMatch
        ELSE whitespace_wrap(literal(s, space0(s, w.rest)), s)

\* query_parser::subject, lines 151-157
subject(s, i) ==
    LET r == Prefixed(<<"s", "u", "b", "j", "e", "c", "t", ":">>, s, i)
    IN  IF r.ok THEN Matched(r.rest, [t |-> "Subject", s |-> r.v]) ELSE NoMatch

\* query_parser::from, lines 159-165
from(s, i) ==
    LET r == Prefixed(<<"f", "r", "o", "m", ":">>, s, i)
    IN  IF r.ok THEN Matched(r.rest, [t |-> "From", s |-> r.v]) ELSE NoMatch

\* The words query refuses as a text term, lines 223-225
Reserved == { <<"a", "n", "d">>, <<"o", "r">>, <<"n", "o", "t">> }

Not(q) == [t |-> "Not", a |-> q]
And(a, b) == [t |-> "And", a |-> a, b |-> b]
Or(a, b) == [t |-> "Or", a |-> a, b |-> b]
AllText(s) == [t |-> "AllText", s |-> s]

RECURSIVE query(_, _), or(_, _), and(_, _), not(_, _), parentheses_query(_, _)
\* query_parser::or, lines 167-173
or(s, i) ==
    LET w == whitespace_wrap(match_literal_anycase(<<"o", "r">>, s, space0(s, i)), s)
    IN  IF w.ok THEN query(s, w.rest) ELSE NoMatch

\* query_parser::not, lines 175-184
not(s, i) ==
    LET word == match_literal_anycase(<<"n", "o", "t">>, s, space0(s, i))
        bang == match_literal_anycase(<<"!">>, s, space0(s, i))
        w == whitespace_wrap(IF word.ok THEN word ELSE bang, s)
    IN  IF w.ok THEN query(s, w.rest) ELSE NoMatch

\* query_parser::and, lines 186-192
and(s, i) ==
    LET w == whitespace_wrap(match_literal_anycase(<<"a", "n", "d">>, s, space0(s, i)), s)
    IN  IF w.ok THEN query(s, w.rest) ELSE NoMatch

\* query_parser::parentheses_query, lines 198-207
parentheses_query(s, i) ==
    LET open == whitespace_wrap(match_literal(<<"(">>, s, space0(s, i)), s)
    IN  IF ~open.ok THEN NoMatch
        ELSE LET inner == whitespace_wrap(query(s, space0(s, open.rest)), s)
             IN  IF ~inner.ok THEN NoMatch
                 ELSE LET close == whitespace_wrap(
                                      match_literal(<<")">>, s, space0(s, inner.rest)), s)
                      IN  IF close.ok THEN Matched(close.rest, inner.v) ELSE NoMatch

\* query_parser::query, lines 209-251
query(s, i) ==
    LET first ==
            IF parentheses_query(s, i).ok THEN parentheses_query(s, i)
            ELSE IF subject(s, i).ok THEN subject(s, i)
            ELSE IF from(s, i).ok THEN from(s, i)
            ELSE IF not(s, i).ok THEN Matched(not(s, i).rest, Not(not(s, i).v))
            ELSE IF literal(s, i).ok /\ literal(s, i).v \notin Reserved
            THEN Matched(literal(s, i).rest, AllText(literal(s, i).v))
            ELSE NoMatch
    IN  IF ~first.ok THEN NoMatch
        ELSE IF first.rest = Len(s) THEN first
        ELSE IF and(s, first.rest).ok
        THEN Matched(and(s, first.rest).rest, And(first.v, and(s, first.rest).v))
        ELSE IF or(s, first.rest).ok
        THEN Matched(or(s, first.rest).rest, Or(first.v, or(s, first.rest).v))
        ELSE IF query(s, first.rest).ok
        THEN Matched(query(s, first.rest).rest, Or(first.v, query(s, first.rest).v))
        ELSE first

\* Parser::parse_complete: the result of the parser if nothing is left
parse_complete(r, s) == IF r.ok /\ r.rest = Len(s) THEN [ok |-> TRUE, v |-> r.v] ELSE [ok |-> FALSE]

\* The search strings: up to MaxTokens words
QueryInputs == UNION {[1..n -> Tokens] : n \in 1..MaxTokens}

\* let r = query().parse_complete(input)
Query_Parse ==
    /\ ~query_result.done
    /\ query_result' = [done |-> TRUE] @@
                          parse_complete(query(JoinTokens(query_input), 0),
                                         JoinTokens(query_input))
    /\ UNCHANGED <<imapVars, jmapVars, listing, rateVars, collVars, segVars, draftVars, query_input>>

\* A search string to parse, nothing else running
QueryInit ==
    /\ conf \in {c \in Confs : c.server_hostname = "rfc3501" /\ ~c.use_tls /\ IsImapConf(c)
                                /\ ~c.oauth2 /\ c.condstore /\ ~c.keep_offline_cache
                                /\ c.timeout}
    /\ NoStream
    /\ NoLocals
    /\ stack = <<>>
    /\ retval = NoResult
    /\ now = 0
    /\ stream = StreamErr("None")
    /\ held = NoHeld
    /\ is_online = [time |-> 0, ok |-> FALSE, kind |-> "None"]
    /\ sync_policy = "None"
    /\ capabilities = {}
    /\ new_caps = {}
    /\ required = "empty"
    /\ out = <<>>
    /\ notices = 0
    /\ processed = <<>>
    /\ opened = 0
    /\ entry = NoEntry
    /\ NoBlocking
    /\ NoJmap
    /\ NoCollection
    /\ NoDraft
    /\ NoListing
    /\ NoSegmentTree
    /\ NoRateLimit
    /\ query_input \in QueryInputs
    /\ query_result = [done |-> FALSE]
    /\ uid_store = EmptyStore
    /\ mailboxes = [h \in MailboxHashes |-> 42]

QueryNext == Query_Parse

SpecQuery == QueryInit /\ [][QueryNext]_vars

(***************************************************************************)
(* SegmentTree (src/types.rs, mod segment_tree).  `array` and `tree` are   *)
(* functions on 0..len-1, as the vectors of the source.                    *)
(***************************************************************************)
\* The longest array a tree is built from, and the largest of its values
MaxArrayLen == 3
MaxValue == 2

\* A vector of the elements of the sequence s, indexed from 0
VecOf(s) == [i \in 0..(Len(s) - 1) |-> s[i + 1]]

\* Vec::len
VecLen(v) == Cardinality(DOMAIN v)

RECURSIVE Pow2(_)
Pow2(h) == IF h = 0 THEN 1 ELSE 2 * Pow2(h - 1)

\* (len as f64).log2().ceil() as u32, for len >= 1
CeilLog2(len) == CHOOSE h \in 0..len : Pow2(h) >= len /\ (h = 0 \/ Pow2(h - 1) < len)

RECURSIVE BuildInner(_, _)
\* The loop of lines 244-246 from i down to 1
BuildInner(tree, i) ==
    IF i < 1 THEN tree
    ELSE BuildInner([tree EXCEPT ![i] = Max({tree[2 * i], tree[2 * i + 1]})], i - 1)

\* SegmentTree::new, lines 227-252
SegmentTreeNew(val) ==
    IF VecLen(val) = 0 THEN [array |-> val, tree |-> val]
    ELSE LET len == VecLen(val)
             max_size == 2 * Pow2(CeilLog2(len))
             leaves == [i \in 0..(max_size - 1) |->
                          IF i >= len /\ i < 2 * len THEN val[i - len] ELSE 0]
         IN  [array |-> val, tree |-> BuildInner(leaves, len - 1)]

RECURSIVE GetMaxLoop(_, _, _, _)
\* The loop of lines 270-283
GetMaxLoop(tree, left, right, max) ==
    IF ~(left < right) THEN max
    ELSE LET max1 == IF left % 2 = 1 THEN Max({max, tree[left]}) ELSE max
             left1 == IF left % 2 = 1 THEN left + 1 ELSE left
             right1 == IF right % 2 = 1 THEN right - 1 ELSE right
             max2 == IF right % 2 = 1 THEN Max({max1, tree[right1]}) ELSE max1
         IN  GetMaxLoop(tree, left1 \div 2, right1 \div 2, max2)

\* SegmentTree::get_max, lines 255-285
get_max(t, left, right) ==
    IF VecLen(t.array) = 0 THEN 0
    ELSE LET len == VecLen(t.array)
             clamped == IF right >= len THEN Max({len - 1, 0}) ELSE right
         IN  GetMaxLoop(t.tree, left + len, clamped + len + 1, 0)

RECURSIVE UpdateLoop(_, _)
\* The loop of lines 292-297
UpdateLoop(tree, ctr) ==
    IF ~(ctr > 1) THEN tree
    ELSE LET up == ctr \div 2
         IN  UpdateLoop([tree EXCEPT ![up] = Max({tree[2 * up], tree[2 * up + 1]})], up)

\* SegmentTree::update that writes the leaf only
update_LeafOnly(t, pos, value) ==
    [t EXCEPT !.tree = [t.tree EXCEPT ![pos + VecLen(t.array)] = value]]

\* SegmentTree::update, lines 287-298
update(t, pos, value) ==
    LET ctr == pos + VecLen(t.array)
    IN  [t EXCEPT !.tree = UpdateLoop([t.tree EXCEPT ![ctr] = value], ctr)]

\* segment_tree.update(pos, value)
Seg_Update(pos, value) ==
    /\ pos < VecLen(segment_tree.array)
    /\ segment_tree' = update(segment_tree, pos, value)
    /\ seg_values' = [seg_values EXCEPT ![pos] = value]
    /\ seg_got' = [some |-> FALSE]
    /\ UNCHANGED <<imapVars, jmapVars, listing, rateVars, collVars, draftVars, queryVars>>

\* let max = segment_tree.get_max(left, right)
Seg_GetMax(left, right) ==
    /\ left <= right
    /\ left < VecLen(segment_tree.array) \/ VecLen(segment_tree.array) = 0
    /\ seg_got' = [some |-> TRUE, left |-> left, right |-> right,
                   max |-> get_max(segment_tree, left, right)]
    /\ UNCHANGED <<imapVars, jmapVars, listing, rateVars, collVars, draftVars, queryVars, segment_tree, seg_values>>

\* The arrays a tree is built from
Arrays == UNION {[0..(n - 1) -> 0..MaxValue] : n \in 0..MaxArrayLen}

\* SegmentTree::from(array), nothing else running
SegmentTreeInit ==
    /\ conf \in {c \in Confs : c.server_hostname = "rfc3501" /\ ~c.use_tls /\ IsImapConf(c)
                                /\ ~c.oauth2 /\ c.condstore /\ ~c.keep_offline_cache
                                /\ c.timeout}
    /\ NoStream
    /\ NoLocals
    /\ stack = <<>>
    /\ retval = NoResult
    /\ now = 0
    /\ stream = StreamErr("None")
    /\ held = NoHeld
    /\ is_online = [time |-> 0, ok |-> FALSE, kind |-> "None"]
    /\ sync_policy = "None"
    /\ capabilities = {}
    /\ new_caps = {}
    /\ required = "empty"
    /\ out = <<>>
    /\ notices = 0
    /\ processed = <<>>
    /\ opened = 0
    /\ entry = NoEntry
    /\ NoBlocking
    /\ NoJmap
    /\ NoCollection
    /\ NoDraft
    /\ NoListing
    /\ NoQuery
    /\ NoRateLimit
    /\ \E a \in Arrays : segment_tree = SegmentTreeNew(a) /\ seg_values = a
    /\ seg_got = [some |-> FALSE]
    /\ uid_store = EmptyStore
    /\ mailboxes = [h \in MailboxHashes |-> 42]

SegmentTreeNext ==
    \/ \E pos \in 0..(MaxArrayLen - 1), value \in 0..MaxValue : Seg_Update(pos, value)
    \/ \E left \in 0..(MaxArrayLen - 1), right \in 0..(MaxArrayLen + 1) : Seg_GetMax(left, right)

SpecSegmentTree == SegmentTreeInit /\ [][SegmentTreeNext]_vars

(***************************************************************************)
(* RateLimit (src/types.rs).  Instants and Durations are whole             *)
(* milliseconds.                                                           *)
(***************************************************************************)
\* The largest `reqs` and `millis` a RateLimit is made with, and the last
\* instant of the clock
MaxReqs == 3
MaxMillis == 4
MaxInstant == 6

\* RateLimit::new at the instant `at`, lines 325-340
RateLimitNew(reqs, millis, at) ==
    [last_tick |-> at, rate |-> millis \div reqs, reqs |-> reqs, millis |-> millis,
     active |-> FALSE, rearmed |-> 0]

\* One millisecond passes
RL_Advance ==
    /\ rate_limit.reqs > 0
    /\ instant < MaxInstant
    /\ instant' = instant + 1
    /\ UNCHANGED <<imapVars, jmapVars, listing, collVars, draftVars, queryVars, segVars,
                   rate_limit, accepted, last_call>>

\* RateLimit::reset, lines 342-345
RL_Reset ==
    /\ rate_limit.reqs > 0
    /\ rate_limit' = [rate_limit EXCEPT !.last_tick = instant, !.active = FALSE]
    /\ last_call' = [fn |-> "reset", at |-> instant, since |-> instant, returned |-> FALSE]
    /\ UNCHANGED <<imapVars, jmapVars, listing, collVars, draftVars, queryVars, segVars,
                   instant, accepted>>

\* RateLimit::tick, lines 347-357
RL_Tick ==
    /\ rate_limit.reqs > 0
    /\ IF rate_limit.last_tick + rate_limit.rate > instant
       THEN /\ rate_limit' = [rate_limit EXCEPT !.active = FALSE]
            /\ UNCHANGED accepted
       ELSE /\ rate_limit' = [rate_limit EXCEPT !.rearmed = 1, !.last_tick = instant,
                                                !.active = TRUE]
            /\ accepted' = accepted \cup {instant}
    /\ last_call' = [fn |-> "tick", at |-> instant, since |-> rate_limit.last_tick,
                     returned |-> rate_limit'.active]
    /\ UNCHANGED <<imapVars, jmapVars, listing, collVars, draftVars, queryVars, segVars, instant>>

\* RateLimit::new(reqs, millis) at instant 0, nothing else running
RateLimitInit ==
    /\ conf \in {c \in Confs : c.server_hostname = "rfc3501" /\ ~c.use_tls /\ IsImapConf(c)
                                /\ ~c.oauth2 /\ c.condstore /\ ~c.keep_offline_cache
                                /\ c.timeout}
    /\ NoStream
    /\ NoLocals
    /\ stack = <<>>
    /\ retval = NoResult
    /\ now = 0
    /\ stream = StreamErr("None")
    /\ held = NoHeld
    /\ is_online = [time |-> 0, ok |-> FALSE, kind |-> "None"]
    /\ sync_policy = "None"
    /\ capabilities = {}
    /\ new_caps = {}
    /\ required = "empty"
    /\ out = <<>>
    /\ notices = 0
    /\ processed = <<>>
    /\ opened = 0
    /\ entry = NoEntry
    /\ NoBlocking
    /\ NoJmap
    /\ NoCollection
    /\ NoDraft
    /\ NoListing
    /\ NoQuery
    /\ NoSegmentTree
    /\ \E reqs \in 1..MaxReqs, millis \in 1..MaxMillis :
          rate_limit = RateLimitNew(reqs, millis, 0)
    /\ instant = 0
    /\ accepted = {}
    /\ last_call = [fn |-> "new", at |-> 0, since |-> 0, returned |-> FALSE]
    /\ uid_store = EmptyStore
    /\ mailboxes = [h \in MailboxHashes |-> 42]

RateLimitNext == RL_Advance \/ RL_Reset \/ RL_Tick

SpecRateLimit == RateLimitInit /\ [][RateLimitNext]_vars

\* A ready connection to a server that may send any line, with no stream
\* left to open: the caller sends commands and reads their responses
ResponseInit ==
    /\ conf \in {c \in Confs : c.server_hostname = "any" /\ ~c.use_tls /\ IsImapConf(c)
                                /\ ~c.oauth2 /\ c.condstore /\ ~c.keep_offline_cache}
    /\ wire = <<>>
    /\ eof = FALSE
    /\ srv = Idle(<<>>)
    /\ tls_on = FALSE
    /\ sent_log = <<[tag |-> 1, cmd |-> "CAPABILITY", tls |-> FALSE, full |-> TRUE],
                    [tag |-> 2, cmd |-> "LOGIN", tls |-> FALSE, full |-> TRUE]>>
    /\ cmd_id = 3
    /\ current_mailbox = "None"
    /\ NoLocals
    /\ stack = <<>>
    /\ retval = NoResult
    /\ now = 0
    /\ stream = StreamOk
    /\ held = NoHeld
    /\ is_online = Online(0)
    /\ sync_policy = "None"
    /\ capabilities = {C_IMAP4REV1}
    /\ new_caps = capabilities
    /\ required = "empty"
    /\ out = <<>>
    /\ notices = 0
    /\ processed = <<>>
    /\ opened = MaxStreams
    /\ entry = NoEntry
    /\ NoCollection
    /\ NoTools
    /\ NoJmap
    /\ NoBlocking
    /\ uid_store = EmptyStore
    /\ mailboxes = [h \in MailboxHashes |-> 42]

ResponseNext ==
    \/ CallSendCommand
    \/ CallReadResponse
    \/ CallReadResponseRequiring
    \/ SC_Send
    \/ RR_Start
    \/ RR_Resp
    \/ RL_Read
    \/ RL_Eof
    \/ RL_Err
    \/ RL_Timeout
    \/ ServerSend
    \/ ServerClose

SpecResponse == ResponseInit /\ [][ResponseNext]_vars

\* connect() on a ready connection that may have a mailbox selected
ReconnectNext ==
    \/ CallConnect
    \/ Conn_Start
    \/ Conn_NoopSent
    \/ Conn_NoopResp
    \/ Conn_Opened
    \/ Conn_UpgradeSent
    \/ Conn_UpgradeResp
    \/ SC_Send
    \/ SC_Reconnected
    \/ RR_Start
    \/ RR_Resp
    \/ NC_Start
    \/ NC_InitImap
    \/ NC_CapResp
    \/ NC_LoginResp
    \/ NC_PostResp
    \/ RL_Read
    \/ RL_Eof
    \/ RL_Err
    \/ RL_Timeout
    \/ ServerSend
    \/ ServerClose

\* The ready connection of MailboxInit with the capabilities of a plain
\* IMAP4rev1 server
ReconnectInit ==
    /\ MailboxInit
    /\ capabilities = {C_IMAP4REV1}
    /\ mailboxes = [h \in MailboxHashes |-> 42]

SpecReconnect == ReconnectInit /\ [][ReconnectNext]_vars

(***************************************************************************)
(* Properties of stream establishment (checked under SpecStream)           *)
(***************************************************************************)
Established == stack = <<>>

\* The tags put on the wire, in order
WireTags == SelectSeq(sent_log, LAMBDA e : e.tag # 0)

\* C1: the numeric tags M{n} written on one stream, the STARTTLS command of
\* its establishment included, are strictly increasing.
C1_TagsStrictlyIncreasing ==
    \A i, j \in 1..Len(WireTags) : i < j => WireTags[i].tag < WireTags[j].tag

AuthWritten ==
    \E i \in 1..Len(sent_log) : sent_log[i].cmd \in {"LOGIN", "AUTHENTICATE"}

\* The CAPABILITY response read before authentication lists LOGINDISABLED
LoginDisabledAdvertised == AnyCapIgnoreCase(pre_caps, C_LOGINDISABLED)

\* C6 as stated: whenever the CAPABILITY response read before
\* authentication advertises LOGINDISABLED in any letter case,
\* establishment fails with kind Authentication and no LOGIN or
\* AUTHENTICATE is written.
C6_LoginDisabledIsAuthenticationError ==
    LoginDisabledAdvertised =>
        /\ ~AuthWritten
        /\ Established => (~retval.ok /\ retval.kind = "Authentication")

\* C6 as amended: whenever the CAPABILITY response read before
\* authentication advertises LOGINDISABLED in any letter case,
\* establishment fails and no LOGIN or AUTHENTICATE is written; the error
\* is of kind Authentication when the response also lists IMAP4rev1 (the
\* IMAP4rev1 check comes first and fails with an error of no kind).
C6_LoginDisabledFails ==
    LoginDisabledAdvertised =>
        /\ ~AuthWritten
        /\ Established =>
             /\ ~retval.ok
             /\ AnyCapIgnoreCase(pre_caps, C_IMAP4REV1) => retval.kind = "Authentication"
             /\ ~AnyCapIgnoreCase(pre_caps, C_IMAP4REV1) => retval.kind = "None"

\* C6's case: a server that spells LOGINDISABLED in mixed case was refused
\* with an Authentication error
C6_Witness ==
    /\ Established
    /\ pre_caps = <<C_imap4rev1_mixed, C_logindisabled_mixed>>
    /\ retval.kind = "Authentication"
    /\ ~AuthWritten

\* C7: with STARTTLS configured on an IMAP stream, the TLS handshake starts
\* only after the tagged OK reply to STARTTLS was received, a reply that
\* does not arrive within the settle window is not accepted, and no
\* CAPABILITY, LOGIN or AUTHENTICATE is written before the TLS session.
C7_StarttlsBeforeTls ==
    (conf.use_starttls /\ IsImap) =>
        /\ (tls_on \/ At("new_connection", "tls")) =>
              (accepted_at # -1 /\ StartsWith(response, B_M1_OK))
        /\ accepted_at # -1 => accepted_at < StarttlsSettleSecs
        /\ \A i \in 1..Len(sent_log) :
              sent_log[i].cmd \in {"CAPABILITY", "LOGIN", "AUTHENTICATE"}
                  => sent_log[i].tls

\* A tagged OK completion with or without text: "M2 OK\r\n", "M2 OK x\r\n"
IsTaggedOk(l, n) ==
    \/ l = Tag(n) \o W_OK \o CRLF
    \/ StartsWith(l, Tag(n) \o W_OK \o <<SP>>) /\ EndsWith(l, CRLF)

\* The reply to LOGIN/AUTHENTICATE in the buffer is a tagged OK
LoginAnsweredOk ==
    \E i \in 1..Len(SplitRn(ret)) : IsTaggedOk(SplitRn(ret)[i], cmd_id - 1)

\* C8: when the capabilities pass the checks and the server answers LOGIN
\* with a tagged OK, with or without text after OK, establishment does not
\* fail on that reply.
C8_TaggedOkLogsIn ==
    (Established /\ retval.site = "login") => ~LoginAnsweredOk

\* C9: establishment fails with kind Authentication when OAUTH2 is enabled
\* and AUTH=XOAUTH2 is not advertised (no AUTHENTICATE is written) and when
\* the tagged reply to LOGIN/AUTHENTICATE is not OK; an IMAP stream is
\* returned only after a tagged OK to the authentication command.
C9_AuthenticationErrors ==
    /\ (Established /\ retval.site = "no_xoauth2") =>
          (~retval.ok /\ retval.kind = "Authentication" /\ ~AuthWritten)
    /\ (Established /\ retval.site = "login") =>
          (~retval.ok /\ retval.kind = "Authentication")
    /\ (Established /\ retval.ok /\ IsImap) => AuthWritten

(***************************************************************************)
(* Properties of the wire framer (checked under SpecFramer)                *)
(***************************************************************************)
\* read_lines was called as ImapStream::read_response calls it
AsReadResponse == termination = [s |-> Tag(cmd_id - 1), keep |-> TRUE]

\* read_lines has returned
Returned == stack = <<>> /\ retval.by = "read_lines"

\* The last line of s is a complete line that begins with the tag M{n}
EndsWithTaggedLine(s, n) ==
    LET lines == SplitRn(s)
    IN  /\ lines # <<>>
        /\ StartsWith(lines[Len(lines)], Tag(n))
        /\ EndsWith(lines[Len(lines)], CRLF)

\* C2: whenever ImapStream::read_response returns Ok on an IMAP stream,
\* the buffer ends with a complete CRLF-terminated line that begins with
\* M{cmd_id-1} and is kept in the buffer, also when the transport is at EOF.
C2_OkEndsWithTaggedLine ==
    (Returned /\ AsReadResponse /\ retval.ok) => EndsWithTaggedLine(ret, cmd_id - 1)

\* Some complete line of s begins with p
HasLine(s, p) ==
    \E i \in 1..Len(SplitRn(s)) :
        StartsWith(SplitRn(s)[i], p) /\ EndsWith(SplitRn(s)[i], CRLF)

\* No line of s, complete or not, begins with `* BYE`
NoByeLine(s) == \A i \in 1..Len(SplitRn(s)) : ~StartsWith(SplitRn(s)[i], B_BYE)

\* What the round trip asks of read_lines: it is never about to read when
\* the completion line is in the buffer, it returns with all the bytes of
\* the response when it returns on a line, and it does not fail with
\* "Disconnected"
RoundTrip ==
    /\ At("read_lines", "loop") => ~HasLine(ret, termination.s)
    /\ (Returned /\ retval.site = "line") =>
          (ret = srv.out /\ wire = <<>> /\ EndsWithTaggedLine(ret, cmd_id - 1))
    /\ Returned => retval.site # "bye"

\* C3 as stated: for any response of untagged lines followed by the tagged
\* completion, however the transport splits it into reads, read_lines with
\* the matching termination and keep_termination = true returns Ok with
\* the whole response and reads no more once the completion has arrived.
C3_FramingRoundTrip == AsReadResponse => RoundTrip

\* C3 as amended: the same for any response none of whose untagged lines
\* begins with `* BYE` (such a line makes read_lines fail with
\* "Disconnected").
C3_FramingRoundTripNoBye == (AsReadResponse /\ NoByeLine(ret)) => RoundTrip

\* C3's case: an untagged line and the completion were read and returned
C3_Witness ==
    /\ Returned
    /\ AsReadResponse
    /\ retval.ok
    /\ retval.site = "line"
    /\ Len(SplitRn(ret)) = 2
    /\ ret = srv.out

\* The buffer begins with a complete `* BYE` line
ByeComplete(s) == StartsWith(s, B_BYE) /\ Find(s, CRLF) # -1

\* C4: if a response begins with a `* BYE` line, read_lines fails with
\* "Disconnected" as soon as that line is complete: it is never about to
\* read again with the line in the buffer, whatever the termination.
C4_ByeDisconnects ==
    /\ At("read_lines", "loop") => ~ByeComplete(ret)
    /\ (Returned /\ ByeComplete(ret)) => (~retval.ok /\ retval.site = "bye")

\* C4's case: "Disconnected" was returned on `* BYE` while the server had
\* not sent the completion of the command
C4_Witness ==
    /\ Returned
    /\ ~retval.ok
    /\ retval.site = "bye"
    /\ ret = ByeLine
    /\ srv.cmd = "NOOP"

(***************************************************************************)
(* Properties of the connection (checked under Spec)                       *)
(***************************************************************************)
\* C5: when a response holds a `* BYE` line at any position,
\* ImapConnection::read_response returns an error and leaves the
\* connection's stream in the error state.
C5_ByeDemotesStream ==
    (stack = <<>> /\ retval.by = "read_response" /\ HasLine(ret, B_BYE)) =>
        (~retval.ok /\ ~stream.ok)

\* C10: a step of connect() taken under a status of Ok with a last contact
\* at least 28 minutes old drops the stream with a Timeout error, sets the
\* status to that error, writes no NOOP and goes on to open a new stream.
C10_TimeoutDropsStream ==
    [][ ( /\ At("connect", "start")
          /\ stack' # stack
          /\ is_online.ok
          /\ now - is_online.time >= IMAP_PROTOCOL_TIMEOUT )
        => ( /\ stream' = StreamErr("Timeout")
             /\ is_online' = [time |-> is_online.time, ok |-> FALSE, kind |-> "Timeout"]
             /\ held' = NoHeld
             /\ sent_log' = <<>>
             /\ opened' = opened + 1
             /\ stack'[Len(stack')] = [fn |-> "new_connection", pc |-> "start"] ) ]_vars

\* C10's case: connect() has dropped a stream that was Ok after 28 minutes
\* without contact and is opening the second one
C10_Witness ==
    /\ Len(stack) = 2
    /\ stack[1] = [fn |-> "connect", pc |-> "opened"]
    /\ At("new_connection", "start")
    /\ stream = StreamErr("Timeout")
    /\ is_online.kind = "Timeout"
    /\ now - is_online.time >= IMAP_PROTOCOL_TIMEOUT
    /\ opened = 2

\* The probe of connect() is over: the caller's connect() found a stream
\* that was Ok within the protocol timeout, and the read_response of its
\* NOOP has returned
ProbeReturned ==
    /\ stack = <<[fn |-> "connect", pc |-> "noop_resp"]>>
    /\ entry.fn = "connect"
    /\ entry.live

\* The last line of the buffer read is the tagged OK of command M{n}
ReplyIsTaggedOk(n) ==
    SplitRn(ret) # <<>> /\ IsTaggedOk(SplitRn(ret)[Len(SplitRn(ret))], n)

C12_ReturnsSendError ==
    retval.by = "send_command" =>
        /\ retval.ok => (stream.ok /\ sent_log # <<>> /\ sent_log[Len(sent_log)].full)
        /\ ~retval.ok => retval.site \in {"send", "stream"}

\* C13: handling one failed operation (a send_command that hits a network
\* error, a connect() whose NOOP probe fails) opens at most one new stream
\* before control returns to the caller.
C13_OneReconnect ==
    (entry.fn = "send_command" \/ (entry.fn = "connect" /\ entry.live)) =>
        opened <= entry.opened + 1

\* connect() called by the caller has returned Ok with a stream it
\* established
NewStreamConnected ==
    /\ stack = <<>>
    /\ retval.by = "connect"
    /\ retval.ok
    /\ entry.fn = "connect"
    /\ opened > entry.opened

\* The policy the rules give for the capabilities `caps` of a stream
PolicyFor(caps) ==
    IF ~conf.keep_offline_cache THEN "None"
    ELSE IF ~conf.condstore \/ C_CONDSTORE \notin caps THEN "Basic"
    ELSE IF C_QRESYNC \in caps THEN "CondstoreQresync"
    ELSE "Condstore"

\* C14: after every connect() that establishes a new stream and returns
\* Ok, sync_policy is None if the offline cache is disabled, otherwise
\* Basic if CONDSTORE is disabled or not advertised, otherwise
\* CondstoreQresync if QRESYNC is advertised, otherwise Condstore.
C14_SyncPolicyRule == NewStreamConnected => sync_policy = PolicyFor(new_caps)

\* The policies from the weakest to the strongest
PolicyRank(p) ==
    CASE p = "None" -> 0
      [] p = "Basic" -> 1
      [] p = "Condstore" -> 2
      [] p = "CondstoreQresync" -> 3

\* connect() has called ImapStream::new_connection and not returned yet
ConnectEstablishing ==
    /\ stack # <<>>
    /\ Top.fn = "connect"
    /\ Top.pc \in {"opened", "upgrade_sent", "upgrade_resp"}

C16_CapabilitiesPublished ==
    (stack = <<>> /\ retval.by = "connect" /\ entry.fn = "connect"
        /\ opened > entry.opened /\ stream.ok) => capabilities = new_caps

(***************************************************************************)
(* Properties of the mailbox operations (checked under SpecMailbox)        *)
(***************************************************************************)
\* select_mailbox(h, force = false) is about to run with Select(h) current
SelectOfCurrent ==
    /\ At("select_mailbox", "start")
    /\ ~entry.args.force
    /\ stream.ok
    /\ current_mailbox = Select(entry.args.mailbox_hash)

\* C17: select_mailbox(h, force = false) called while current_mailbox is
\* Select(h) writes nothing to and reads nothing from the transport and
\* leaves cmd_id and current_mailbox as they are.
C17_SelectIdempotent ==
    [][(SelectOfCurrent /\ stack' # stack) =>
          /\ stack' = <<>>
          /\ retval'.ok
          /\ UNCHANGED <<wire, eof, srv, tls_on, sent_log, cmd_id, current_mailbox>>]_vars

\* C17's case: select_mailbox(h, false) has returned with Select(h) current
\* before and after it
C17_Witness ==
    /\ stack = <<>>
    /\ retval.by = "select_mailbox"
    /\ retval.ok
    /\ ~entry.args.force
    /\ entry.current_mailbox = Select(entry.args.mailbox_hash)
    /\ current_mailbox = entry.current_mailbox
    /\ sent_log = entry.sent_log
    /\ cmd_id = entry.cmd_id

\* C18: after select_mailbox(h, force) returns Ok on a ready connection
\* current_mailbox is Select(h), and after examine_mailbox(h, force)
\* returns Ok it is Examine(h).
C18_SelectionSet ==
    (stack = <<>> /\ retval.ok /\ stream.ok /\ entry.stream.ok) =>
        /\ retval.by = "select_mailbox" => current_mailbox = Select(entry.args.mailbox_hash)
        /\ retval.by = "examine_mailbox" => current_mailbox = Examine(entry.args.mailbox_hash)

\* Some capability of the set is UNSELECT once its letters are upper-cased
AdvertisesUnselect(caps) ==
    \E cap \in caps : [i \in 1..Len(cap) |-> ToAsciiUpper(cap[i])] = C_UNSELECT

\* The command unselect() is to write for the selection and the
\* capabilities it was called with
UnselectCommand ==
    [tag |-> entry.cmd_id,
     cmd |-> IF AdvertisesUnselect(entry.capabilities) THEN "UNSELECT" ELSE "SELECT",
     tls |-> tls_on, full |-> TRUE]

\* The last line of the buffer read is the tagged NO of command M{n}
ReplyIsTaggedNo(n) ==
    /\ SplitRn(ret) # <<>>
    /\ StartsWith(SplitRn(ret)[Len(SplitRn(ret))], Tag(n) \o W_NO \o <<SP>>)

UnselectReturned == stack = <<>> /\ retval.by = "unselect"

\* C20: unselect() with a mailbox selected or examined writes UNSELECT if
\* and only if the shared capabilities contain UNSELECT in any letter
\* case, and otherwise SELECT of the nonexistent mailbox, whose NO reply is
\* a success; current_mailbox is None when it returns; with no mailbox
\* selected it writes nothing and returns Ok.
C20_Unselect ==
    (entry.fn = "unselect" /\ entry.stream.ok) =>
        /\ (opened = entry.opened /\ entry.current_mailbox = "None") =>
              (sent_log = entry.sent_log /\ cmd_id = entry.cmd_id /\ ret = <<>>)
        /\ (opened = entry.opened /\ entry.current_mailbox # "None") =>
              \/ sent_log = entry.sent_log
              \/ /\ Len(sent_log) = Len(entry.sent_log) + 1
                 /\ SubSeq(sent_log, 1, Len(entry.sent_log)) = entry.sent_log
                 /\ sent_log[Len(sent_log)].cmd = UnselectCommand.cmd
                 /\ sent_log[Len(sent_log)].tag = UnselectCommand.tag
        /\ UnselectReturned =>
              /\ stream.ok => current_mailbox = "None"
              /\ entry.current_mailbox = "None" => retval.ok
              /\ (entry.current_mailbox # "None" /\ opened = entry.opened /\ retval.ok) =>
                    sent_log = Append(entry.sent_log, UnselectCommand)
              /\ (entry.current_mailbox # "None" /\ opened = entry.opened
                    /\ ~AdvertisesUnselect(entry.capabilities)
                    /\ ReplyIsTaggedNo(entry.cmd_id)) => retval.ok

\* C20's case: with Select(h1) current and no UNSELECT capability,
\* unselect() wrote SELECT, was answered NO and returned Ok
C20_Witness ==
    /\ UnselectReturned
    /\ retval.ok
    /\ entry.current_mailbox = Select("h1")
    /\ ~AdvertisesUnselect(entry.capabilities)
    /\ sent_log[Len(sent_log)].cmd = "SELECT"
    /\ ReplyIsTaggedNo(entry.cmd_id)
    /\ current_mailbox = "None"

\* C19: when the SELECT of a mailbox finds a UIDVALIDITY other than the
\* one stored for it, the UIDs stored for that mailbox are cleared before
\* another operation proceeds: once select_mailbox(h, ..) has returned Ok,
\* the store holds the server's UIDVALIDITY of h or no UID of h.
C19_UidValidityChangeClears ==
    (stack = <<>> /\ retval.by = "select_mailbox" /\ retval.ok /\ entry.stream.ok) =>
        LET h == entry.args.mailbox_hash
        IN  mailboxes[h] # uid_store.uidvalidity[h] => uid_store.uid_index[h] = {}

\* connect() called by the caller on a stream with a mailbox selected
\* has returned Ok with a stream it established
ReconnectedFromSelection == NewStreamConnected /\ entry.current_mailbox # "None"

\* C21: a newly established stream starts with current_mailbox None: the
\* step of connect() that puts the new stream in place leaves no mailbox
\* selected, and when connect() has returned Ok with a stream it
\* established the connection reports none, whatever was selected before.
C21_FreshStreamUnselected ==
    /\ [](NewStreamConnected => (stream.ok /\ current_mailbox = "None"))
    /\ [][(At("connect", "opened") /\ retval.ok /\ stack' # stack) =>
            (stream'.ok /\ current_mailbox' = "None")]_vars

\* C21's case: the connection had Select(h1) when connect() was called and
\* connect() established a new stream
C21_Witness ==
    /\ ReconnectedFromSelection
    /\ entry.current_mailbox = Select("h1")
    /\ stream.ok
    /\ current_mailbox = "None"

\* The stream's read_response has returned Ok to
\* ImapConnection::read_response with a buffer whose last line is the
\* tagged line of the command awaited, with the status word `w`
ReadTagged(w) ==
    /\ At("read_response", "resp")
    /\ retval.ok
    /\ IsImap
    /\ SplitRn(ret) # <<>>
    /\ StartsWith(SplitRn(ret)[Len(SplitRn(ret))], Tag(cmd_id - 1) \o w \o <<SP>>)

ReadTimedOut ==
    /\ stack = <<>>
    /\ entry.fn = "read_response"
    /\ retval.by = "read_response"
    /\ ~retval.ok
    /\ retval.kind = "Timeout"

\* ... or the error of a write that failed or timed out
SendTimedOut ==
    /\ stack = <<>>
    /\ entry.fn = "send_command"
    /\ retval.by = "send_command"
    /\ ~retval.ok
    /\ retval.site = "send"

\* C23: when the per-command timeout expires during a send or during the
\* read of a response, the operation returns the error and the stream the
\* timeout expired on is no longer in use when it returns: the
\* connection's stream is in the error state, or (after a send) a stream
\* opened since has taken its place.
C23_TimeoutDemotesStream ==
    /\ ReadTimedOut => ~stream.ok
    /\ SendTimedOut => (~stream.ok \/ opened > entry.opened)

RECURSIVE Flat(_)
\* The lines of a sequence, one after the other
Flat(ls) == IF ls = <<>> THEN <<>> ELSE Head(ls) \o Flat(Tail(ls))

\* The bytes the adapter has read from the transport
Received == Take(srv.out, Len(srv.out) - Len(wire))

\* A pull has returned None
PulledNone == stack = <<>> /\ retval.by = "as_stream" /\ retval.site = "None"

\* C24: the pulls return the CRLF-terminated lines received, in arrival
\* order and each once (what was pulled is the beginning of what was
\* received, cut at the line ends), and when a pull returns None no
\* complete line that was received is left unreturned.
C24_EveryLinePulled ==
    /\ StartsWith(Received, Flat(pulled))
    /\ \A i \in 1..Len(pulled) : Find(pulled[i], CRLF) = Len(pulled[i]) - Len(CRLF)
    /\ PulledNone => Find(Drop(Received, Len(Flat(pulled))), CRLF) = -1

\* C25: a pull returns None only when the stream was an error at the call,
\* at the EOF of the transport or on a read error, and when it returns
\* None because the transport disconnected (EOF or read error) an error is
\* recorded for err() to yield.
C25_NoneRecordsError ==
    PulledNone =>
        /\ ~entry.stream.ok \/ retval.kind \in {"eof", "Network"}
        /\ entry.stream.ok => err # "None"

\* C26: across the interleavings of the callers that share the request
\* counter, the sequence numbers drawn (by add_call and by get_mailboxes)
\* are pairwise distinct, and the counter has grown by exactly one for each
\* number drawn or about to be returned.
C26_DistinctSequenceNumbers ==
    /\ \A i, j \in 1..Len(drawn) : i # j => drawn[i] # drawn[j]
    /\ request_no = Len(drawn) + Cardinality({c \in Callers : jc[c].pc = "unlock"})

\* C26's case: the draws of two callers interleave: fetch drew 0 and 2,
\* get_mailboxes drew 1 in between
C26_Witness ==
    /\ jc["a"].op = "fetch"
    /\ jc["b"].op = "get_mailboxes"
    /\ Len(jc["a"].calls) = 2
    /\ Len(jc["b"].calls) = 1
    /\ jc["a"].calls[1].seq = 0
    /\ jc["b"].calls[1].seq = 1
    /\ jc["a"].calls[2].seq = 2

\* C27: every method call placed in a request carries the call id m{seq},
\* seq being the number drawn from the counter for that call.
C27_CallIds ==
    \A c \in Callers : \A i \in 1..Len(jc[c].calls) :
        jc[c].calls[i].id = <<"m">> \o Decimal(jc[c].calls[i].seq)

\* fetch of caller c has compared the state Email/get returned with the
\* stored one and acted on it
FetchCompared(c) ==
    /\ jc[c].op = "fetch"
    /\ jc[c].pc = "done"
    /\ jc[c].reply = "responses"

\* C28: fetch invokes email_changes() if and only if the stored Email
\* state is non-empty and differs from the state returned.
C28_ChangesIffStateDiffers ==
    \A c \in Callers :
        FetchCompared(c) => (jc[c].changes <=> (jc[c].seen # "" /\ jc[c].seen # jc[c].state))

\* The reply to the operation of caller c was an error body, a JMAP error
\* object or no well-formed list of method responses, and the operation is
\* over
ErrorReplied(c) ==
    /\ jc[c].pc = "done"
    /\ jc[c].reply \in {"http_error_body", "method_error", "empty_list"}

\* C29: on such a reply the operation returns an error to its caller (it
\* does not panic), and the stored Email state is as it was when the
\* operation started (seen when no other caller has run).
C29_ErrorsAreReturned ==
    \A c \in Callers :
        ErrorReplied(c) =>
            /\ jc[c].outcome = "Err"
            /\ (\A d \in Callers \ {c} : jc[d].op = "none") =>
                   email_state = jc[c].stored_at_call

\* C30: after a Collection operation has returned (insert, insert_reply,
\* removal through the map interface) the envelope hashes the thread nodes
\* refer to are the keys of the envelope map.
C30_ThreadsMatchMap == NodeHashes(thread_nodes) = envelopes

\* The Collection holds every envelope, each put in by one Collection::insert
\* into the empty Collection, the replies before what they reply to
InsertedRepliesFirst ==
    /\ Alive
    /\ made.inserts_only
    /\ made.order = <<"e4", "e3", "e2", "e1">>

LoadedStaleCache ==
    /\ made.fresh
    /\ made.path = "cached"
    /\ NodeHashes(cache.threads) \ envelopes # {}
    /\ envelopes \ NodeHashes(cache.threads) # {}

\* Collection::new has just run and found a cache file that deserializes
CacheUsable == made.fresh /\ made.fs.found /\ made.fs.deserializes

\* Collection::new has just run and found no cache file that deserializes
CacheUnusable == made.fresh /\ ~(made.fs.found /\ made.fs.deserializes)

DraftReparsed ==
    /\ draft_back.some
    /\ draft_back.default_date # draft.headers[H_Date]
    /\ draft_back.default_id # draft.headers[H_MessageID]

\* C33: for a Draft of the default headers and any body,
\* Draft::from_str(d.to_string()) is Ok and equal to d: the same headers, the
\* same header order, the same body and the same attachments.
C33_DraftRoundTrip ==
    draft_back.some =>
        /\ draft_back.ok
        /\ draft_back.value = draft

C33_Witness ==
    /\ DraftReparsed
    /\ draft_back.ok
    /\ draft_back.value = draft
    /\ draft.body = <<ALPHA, LF, ":">>

\* The words that stand for one term, and the term of each
TermTokens == {"x", "subject:y"}

TermOf(t) ==
    IF t = "x" THEN AllText(<<"x">>) ELSE [t |-> "Subject", s |-> <<"y">>]

\* The words the parsers and, or match, and the node of each
OperatorTokens == {"and", "or", "OR"}

OpOf(t, a, b) == IF t = "and" THEN And(a, b) ELSE Or(a, b)

RECURSIVE TextTerms(_)
\* The strings of the AllText nodes of a query
TextTerms(q) ==
    CASE q.t = "AllText" -> {q.s}
      [] q.t \in {"Subject", "From"} -> {}
      [] q.t = "Not" -> TextTerms(q.a)
      [] OTHER -> TextTerms(q.a) \cup TextTerms(q.b)

Parsed(q) == query_result = [done |-> TRUE, ok |-> TRUE, v |-> q]

\* C34: query().parse_complete nests And/Or to the right with no precedence
\* (a op1 b op2 c = op1(a, op2(b, c))), groups parenthesised sub-queries as
\* written, combines two adjacent terms as Or, never gives and/or/not as a
\* text term, and fails when an operator has no right operand.
C34_QueryRules ==
    LET ts == query_input
        n == IF query_result.done THEN Len(ts) ELSE 0
    IN  /\ (n = 3 /\ ts[1] \in TermTokens /\ ts[2] \in OperatorTokens /\ ts[3] \in TermTokens)
              => Parsed(OpOf(ts[2], TermOf(ts[1]), TermOf(ts[3])))
        /\ (n = 5 /\ ts[1] \in TermTokens /\ ts[2] \in OperatorTokens /\ ts[3] \in TermTokens
                  /\ ts[4] \in OperatorTokens /\ ts[5] \in TermTokens)
              => Parsed(OpOf(ts[2], TermOf(ts[1]),
                             OpOf(ts[4], TermOf(ts[3]), TermOf(ts[5]))))
        /\ (n = 5 /\ ts[1] = "(" /\ ts[2] \in TermTokens /\ ts[3] = ")"
                  /\ ts[4] \in OperatorTokens /\ ts[5] \in TermTokens)
              => Parsed(OpOf(ts[4], TermOf(ts[2]), TermOf(ts[5])))
        /\ (n = 5 /\ ts[1] \in TermTokens /\ ts[2] \in OperatorTokens /\ ts[3] = "("
                  /\ ts[4] \in TermTokens /\ ts[5] = ")")
              => Parsed(OpOf(ts[2], TermOf(ts[1]), TermOf(ts[4])))
        /\ (n = 2 /\ ts[1] \in TermTokens /\ ts[2] \in TermTokens)
              => Parsed(Or(TermOf(ts[1]), TermOf(ts[2])))
        /\ (n > 0 /\ query_result.ok) => TextTerms(query_result.v) \cap Reserved = {}
        /\ (n > 1 /\ ts[n] \in OperatorTokens) => ~query_result.ok

\* The positions get_max(left, right) asks about: right is clamped to the
\* last element
Asked == {i \in DOMAIN seg_values : seg_got.left <= i /\ i <= seg_got.right}

\* C35: get_max(left, right) of a non-empty tree, 0 <= left <= right, left
\* within the array, is the maximum of the current values at left..=right
\* (the values after every update so far), with right clamped to the last
\* element; on an empty tree it is 0.
C35_GetMaxIsRangeMax ==
    seg_got.some =>
        seg_got.max = IF DOMAIN seg_values = {} THEN 0
                      ELSE Max({seg_values[i] : i \in Asked})

C35_Witness ==
    /\ seg_got.some
    /\ VecLen(segment_tree.array) = 3
    /\ seg_got.left = 1
    /\ seg_got.right = 4
    /\ segment_tree.array = VecOf(<<1, 2, 0>>)
    /\ seg_values = VecOf(<<1, 0, 1>>)
    /\ seg_got.max = 1

\* `passed` milliseconds are at least millis/reqs
AtLeastInterval(passed) == passed * rate_limit.reqs >= rate_limit.millis

\* C36: tick() returns true, with the timer re-armed and the interval
\* restarted, exactly when at least millis/reqs has passed since the last
\* accepted tick, construction or reset; so two accepted ticks are at least
\* millis/reqs apart and no window of `millis` holds more than `reqs`
\* accepted ticks.
C36_RateLimited ==
    /\ last_call.fn = "tick" =>
          /\ last_call.returned <=> AtLeastInterval(last_call.at - last_call.since)
          /\ last_call.returned =>
                (rate_limit.rearmed = 1 /\ rate_limit.last_tick = last_call.at)
    /\ \A t1, t2 \in accepted : t1 < t2 => AtLeastInterval(t2 - t1)
    /\ \A w \in 0..MaxInstant :
          Cardinality({t \in accepted : w <= t /\ t < w + rate_limit.millis})
             <= rate_limit.reqs

\* read_response has read a response that ends in a tagged OK, or in a
\* tagged NO the caller asked for
ReadCompleted ==
    /\ At("read_response", "resp")
    /\ retval.ok
    /\ IsImap
    /\ \/ ImapResponseOf(ret) = "Ok"
       \/ ImapResponseOf(ret) = "No" /\ required = "NO_REQUIRED"

\* The bytes of the lines of `lines` that satisfy Keep, in order
Kept(lines, Keep(_)) == Flat(SelectSeq(lines, Keep))

C38_GetRefersToOwnQuery ==
    \A c \in Callers : jc[c].op = "fetch" =>
        /\ Len(jc[c].calls) >= 1 => jc[c].calls[1].name = "Email/query"
        /\ Len(jc[c].calls) <= 2
        /\ Len(jc[c].calls) = 2 =>
              /\ jc[c].calls[2].name = "Email/get"
              /\ jc[c].calls[2].ids = ArgReference(jc[c].calls[1].seq, "/ids")
              /\ jc[c].calls[2].ids.result_of = jc[c].calls[1].id

\* C38's case: another request drew the number between the two of a fetch,
\* and the fetch's request is complete
C38_Witness ==
    \E c, d \in Callers :
        /\ jc[c].op = "fetch"
        /\ jc[c].pc = "post"
        /\ Len(jc[d].calls) >= 1
        /\ jc[c].calls[1].seq < jc[d].calls[1].seq
        /\ jc[d].calls[1].seq < jc[c].calls[2].seq
        /\ jc[c].calls[2].ids.result_of = <<"m">> \o Decimal(jc[c].calls[1].seq)

\* The transport was closed by the server while the stream is established
ClosedWhileEstablishing == eof /\ stack # <<>>

\* new_connection has returned
EstablishReturned == stack = <<>> /\ retval.by = "new_connection"

\* C39: once the server has closed the transport, at whatever point of the
\* handshake, new_connection returns: it does not wait or loop forever.
C39_ClosedTerminates == ClosedWhileEstablishing ~> EstablishReturned

\* draw_list has just applied a movement to a listing that is not empty
MovementApplied == listing.drawn.some /\ listing.drawn.moved /\ listing.length > 0

\* C40: when the listing is not empty, after draw_list has applied a
\* movement, whatever its kind, amount or multiplier and the rows of the area,
\* the cursor index new_cursor_pos.2 is below length.
C40_CursorInList == MovementApplied => listing.new_cursor_pos < listing.length

====
